---- MODULE Spec2Model ----
(***************************************************************************)
(* The layout-aware lexer of di (src/di_lexer.c) and the way the parser    *)
(* drives it (fetch_next_token, src/di.h).  The source text is a sequence  *)
(* of one-character strings; offsets are 0-based as in the C code, so the  *)
(* byte at offset i is source[i + 1].                                      *)
(***************************************************************************)
EXTENDS Integers, Sequences, FiniteSets, TLC

(***************************************************************************)
(* Bounds of the checked inputs.                                           *)
(***************************************************************************)
MaxLines == 3
MaxWords == 2

(***************************************************************************)
(* Character classes of the compiled patterns (ASCII part).                *)
(***************************************************************************)
Alpha ==
    { "a", "b", "c", "d", "e", "f", "g", "h", "i", "j", "k", "l", "m",
      "n", "o", "p", "q", "r", "s", "t", "u", "v", "w", "x", "y", "z",
      "A", "B", "C", "D", "E", "F", "G", "H", "I", "J", "K", "L", "M",
      "N", "O", "P", "Q", "R", "S", "T", "U", "V", "W", "X", "Y", "Z" }

Digit ==
    { "0", "1", "2", "3", "4", "5", "6", "7", "8", "9" }

Newline ==
    { "\n", "\r" }

HSpace ==
    { " ", "\t" }

Range(s) ==
    { s[i] : i \in 1..Len(s) }

\* the byte at 0-based offset i, or "" past the end of the subject
At(s, i) ==
    IF i >= 0 /\ i < Len(s) THEN s[i + 1] ELSE ""

RECURSIVE Text(_)
\* di_string_from_chars: the string made of a run of bytes
Text(cs) ==
    IF cs = << >> THEN "" ELSE Head(cs) \o Text(Tail(cs))

Slice(s, from, to) ==
    Text(SubSeq(s, from + 1, to))

NoMatch == -1

(***************************************************************************)
(* The patterns of prepare_patterns.  Every pattern is anchored at start;  *)
(* a matcher returns the end offset of the match, or NoMatch.              *)
(***************************************************************************)
\* word_re: [[:alpha:]$][\w$]*
WordStart ==
    Alpha \cup { "$" }

WordChar ==
    Alpha \cup Digit \cup { "_", "$" }

RECURSIVE RunEnd(_, _, _)
\* the offset after the longest run of bytes of class cls that begins at i
RunEnd(s, i, cls) ==
    IF At(s, i) \in cls THEN RunEnd(s, i + 1, cls) ELSE i

word_re(s, start) ==
    IF At(s, start) \in WordStart THEN RunEnd(s, start + 1, WordChar) ELSE NoMatch

\* operator_re: ->|<=|>=|==|!=|[<>,:;=+*~@\-{}\[\]()\\]
\* (the alternatives are tried in this order; the non-ASCII ones are left out)
TwoCharOperators ==
    { <<"-", ">">>, <<"<", "=">>, <<">", "=">>, <<"=", "=">>, <<"!", "=">> }

OneCharOperators ==
    { "<", ">", ",", ":", ";", "=", "+", "*", "~", "@", "-",
      "{", "}", "[", "]", "(", ")", "\\" }

operator_re(s, start) ==
    IF <<At(s, start), At(s, start + 1)>> \in TwoCharOperators THEN start + 2
    ELSE IF At(s, start) \in OneCharOperators THEN start + 1
    ELSE NoMatch

\* div_re: /
div_re(s, start) ==
    IF At(s, start) = "/" THEN start + 1 ELSE NoMatch

RECURSIVE DelimitedEnd(_, _, _)
\* (?:\\Q|[^Q\n])*Q from offset i on, Q the closing delimiter: greedy with
\* backtracking, the escaped delimiter tried before the single byte
DelimitedEnd(s, i, q) ==
    LET c == At(s, i) IN
    IF c = "" \/ c \in Newline THEN NoMatch
    ELSE IF c = q THEN i + 1
    ELSE IF c = "\\" /\ At(s, i + 1) = q
         THEN LET escaped == DelimitedEnd(s, i + 2, q) IN
              IF escaped # NoMatch THEN escaped ELSE i + 2
    ELSE DelimitedEnd(s, i + 1, q)

\* regex_re: /(?:\\/|[^/\n])*/
regex_re(s, start) ==
    IF At(s, start) = "/" THEN DelimitedEnd(s, start + 1, "/") ELSE NoMatch

\* string_re: "(?:\\"|[^"\n])*"
string_re(s, start) ==
    IF At(s, start) = "\"" THEN DelimitedEnd(s, start + 1, "\"") ELSE NoMatch

\* num_re: -?(?:0|[1-9][0-9]*)(?:\.[0-9]+)?(?:[eE][-+]?[0-9]+)?
num_re(s, start) ==
    LET i0 == IF At(s, start) = "-" THEN start + 1 ELSE start
        i1 == IF At(s, i0) = "0" THEN i0 + 1
              ELSE IF At(s, i0) \in Digit THEN RunEnd(s, i0 + 1, Digit)
              ELSE NoMatch
        i2 == IF At(s, i1) = "." /\ At(s, i1 + 1) \in Digit
              THEN RunEnd(s, i1 + 1, Digit) ELSE i1
        e0 == IF At(s, i2) \in { "e", "E" }
              THEN (IF At(s, i2 + 1) \in { "+", "-" } THEN i2 + 2 ELSE i2 + 1)
              ELSE NoMatch
    IN  IF i1 = NoMatch THEN NoMatch
        ELSE IF e0 # NoMatch /\ At(s, e0) \in Digit THEN RunEnd(s, e0, Digit)
        ELSE i2

\* \R: one newline sequence (CR LF counts as one)
NewlineEnd(s, i) ==
    IF At(s, i) = "\r" /\ At(s, i + 1) = "\n" THEN i + 2
    ELSE IF At(s, i) \in Newline THEN i + 1
    ELSE NoMatch

\* nl_re: (?:\#.*?)?\R
nl_re(s, start) ==
    IF At(s, start) = "#"
    THEN NewlineEnd(s, RunEnd(s, start + 1, { c \in Range(s) : c \notin Newline }))
    ELSE NewlineEnd(s, start)

\* spaces_re: \h+
spaces_re(s, start) ==
    IF At(s, start) \in HSpace THEN RunEnd(s, start + 1, HSpace) ELSE NoMatch

\* the keywords put in keyword_dict
keyword_dict ==
    { "case", "of", "let", "in", "do", "end", "if", "then", "else",
      "and", "or", "not", "mod" }

(***************************************************************************)
(* Values.  A di value is modelled as a record: null, a token or frame     *)
(* dict, or the data of a token.                                           *)
(***************************************************************************)
di_null ==
    [null |-> TRUE]

di_is_null(v) ==
    v = di_null

\* a token is the only dict handed to di_lex as old_token
di_is_dict(v) ==
    "op" \in DOMAIN v

DigitValue(c) ==
    CHOOSE d \in 0..9 : <<"0", "1", "2", "3", "4", "5", "6", "7", "8", "9">>[d + 1] = c

RECURSIVE DigitsValue(_, _, _)
\* the value of the digit run that begins at offset i, acc the value so far
DigitsValue(s, i, acc) ==
    IF At(s, i) \in Digit THEN DigitsValue(s, i + 1, 10 * acc + DigitValue(At(s, i)))
    ELSE acc

\* parse_int: sscanf("%d") reads the sign and the whole digit run at subject,
\* whatever the match length handed to it
parse_int(s, start, length) ==
    IF At(s, start) = "-"
    THEN [int |-> 0 - DigitsValue(s, start + 1, 0)]
    ELSE [int |-> DigitsValue(s, start, 0)]

\* parse_double: the decoded double is kept as its matched text
parse_double(s, start, length) ==
    [double |-> Slice(s, start, start + length)]

parse_number(s, start, length) ==
    IF \E i \in start..(start + length - 1) : At(s, i) \in { ".", "e", "E" }
    THEN parse_double(s, start, length)
    ELSE parse_int(s, start, length)

RECURSIVE Unescape(_, _, _)
\* the second loop of parse_string over the bytes i..last-1 (without \u)
Unescape(s, i, last) ==
    IF i >= last THEN ""
    ELSE IF At(s, i) = "\\"
         THEN LET c == At(s, i + 1)
                  d == CASE c = "b" -> "<BS>"
                         [] c = "f" -> "\f"
                         [] c = "n" -> "\n"
                         [] c = "r" -> "\r"
                         [] c = "t" -> "\t"
                         [] OTHER -> c
              IN  d \o Unescape(s, i + 2, last)
    ELSE At(s, i) \o Unescape(s, i + 1, last)

\* parse_string: drops the quotes and decodes the escapes
parse_string(s, start, length) ==
    [string |-> Unescape(s, start + 1, start + length - 1)]

(***************************************************************************)
(* di_lexer_create                                                         *)
(***************************************************************************)
di_lexer_create(source) ==
    [source |-> source, offset |-> 0, line |-> 1, column |-> 1, layout |-> << >>]

\* set_token_fields: a null data deletes the data key
set_token_fields(op, data, line, column) ==
    IF di_is_null(data)
    THEN [op |-> op, line |-> line, column |-> column]
    ELSE [op |-> op, data |-> data, line |-> line, column |-> column]

update_lexer_offsets(lexer, offset, line, column) ==
    [lexer EXCEPT !.offset = offset, !.line = line, !.column = column]

RECURSIVE SpacesColumn(_, _, _, _)
\* the column after the horizontal spaces at offsets i..last-1
SpacesColumn(s, i, last, column) ==
    IF i >= last THEN column
    ELSE IF At(s, i) = "\t"
         THEN SpacesColumn(s, i + 1, last, column + (8 - ((column - 1) % 8)))
    ELSE SpacesColumn(s, i + 1, last, column + 1)

RECURSIVE ConsumeWhitespace(_, _)
\* the loop that consumes leading whitespace; w holds start, line, column and
\* the match_start and match_end left by the last spaces_re match
ConsumeWhitespace(s, w) ==
    LET nl == nl_re(s, w.start)
        sp == spaces_re(s, w.start)
    IN  IF nl # NoMatch
        THEN ConsumeWhitespace(s, [w EXCEPT !.start = nl, !.line = w.line + 1,
                                            !.column = 1])
        ELSE IF sp # NoMatch
        THEN ConsumeWhitespace(s, [w EXCEPT !.start = sp,
                                            !.column = SpacesColumn(s, w.start, sp, w.column),
                                            !.match_start = w.start,
                                            !.match_end = sp])
        ELSE w

\* what a matching pattern leaves: the op and data found, match_start and
\* match_end
Found(op, data, match_start, match_end) ==
    [found |-> TRUE, op |-> op, data |-> data,
     match_start |-> match_start, match_end |-> match_end]

\* the token for a match of word_re
WordToken(word, start, match_end) ==
    IF word \in keyword_dict THEN Found(word, di_null, start, match_end)
    ELSE IF word = "false" THEN Found("lit", [bool |-> FALSE], start, match_end)
    ELSE IF word = "true" THEN Found("lit", [bool |-> TRUE], start, match_end)
    ELSE IF word = "null" THEN Found("lit", di_null, start, match_end)
    ELSE Found("ident", [string |-> word], start, match_end)

\* the token patterns, tried in the order of di_lex: what was found, its op and
\* data, and the match_start and match_end the call is left with
MatchToken(s, w, accept_regex) ==
    LET start == w.start IN
    IF operator_re(s, start) # NoMatch
    THEN Found(Slice(s, start, operator_re(s, start)), di_null, start,
               operator_re(s, start))
    ELSE IF num_re(s, start) # NoMatch
    THEN Found("lit", parse_number(s, start, num_re(s, start) - start), start,
               num_re(s, start))
    ELSE IF string_re(s, start) # NoMatch
    THEN Found("lit", parse_string(s, start, string_re(s, start) - start), start,
               string_re(s, start))
    ELSE IF accept_regex /\ regex_re(s, start) # NoMatch
    THEN Found("regex", [string |-> Slice(s, start + 1, regex_re(s, start) - 1)],
               start, regex_re(s, start))
    ELSE IF ~accept_regex /\ div_re(s, start) # NoMatch
    THEN Found("/", di_null, start, div_re(s, start))
    ELSE IF word_re(s, start) # NoMatch
    THEN WordToken(Slice(s, start, word_re(s, start)), start, word_re(s, start))
    ELSE IF start >= Len(s)
    THEN Found("eof", di_null, w.match_start, w.match_end)
    ELSE [found |-> FALSE]

\* DivisionContext with the literal left out
DivisionContext_NoLit ==
    { "ident", ")", "]", "}" }

\* the old tokens after which a slash is the division operator
DivisionContext ==
    { "ident", "lit", ")", "]", "}" }

\* the old tokens that open a layout block
LayoutOpeners ==
    { "do", "of", "let", "where" }

\* LayoutInsert without the "unless we inserted one just before" test
LayoutInsert_RepeatSemicolon(layout, old_token, column) ==
    IF di_is_dict(old_token) /\ Len(layout) > 0
    THEN LET layoutframe == layout[Len(layout)] IN
         IF column < layoutframe.column
         THEN (IF layoutframe.op = "let" THEN "in" ELSE "end")
         ELSE IF column = layoutframe.column THEN ";"
         ELSE ""
    ELSE ""

\* LayoutInsert closing every frame with end
LayoutInsert_AlwaysEnd(layout, old_token, column) ==
    IF di_is_dict(old_token) /\ Len(layout) > 0
    THEN LET layoutframe == layout[Len(layout)] IN
         IF column < layoutframe.column THEN "end"
         ELSE IF column = layoutframe.column /\ old_token.op # ";" THEN ";"
         ELSE ""
    ELSE ""

\* LayoutInsert without the ";" at the column of the frame
LayoutInsert_OnlyBelow(layout, old_token, column) ==
    IF di_is_dict(old_token) /\ Len(layout) > 0
    THEN LET layoutframe == layout[Len(layout)] IN
         IF column < layoutframe.column
         THEN (IF layoutframe.op = "let" THEN "in" ELSE "end")
         ELSE ""
    ELSE ""

\* the check of the layout stack: the op of the token to insert before the
\* real token at this column, or "" for none
LayoutInsert(layout, old_token, column) ==
    IF di_is_dict(old_token) /\ Len(layout) > 0
    THEN LET layoutframe == layout[Len(layout)] IN
         IF column < layoutframe.column
         THEN (IF layoutframe.op = "let" THEN "in" ELSE "end")
         ELSE IF column = layoutframe.column /\ old_token.op # ";" THEN ";"
         ELSE ""
    ELSE ""

\* LayoutAfterInsert popping a frame for an inserted ";" as well
LayoutAfterInsert_PopAlways(layout, inserted) ==
    SubSeq(layout, 1, Len(layout) - 1)

\* the layout stack after an inserted token: end and in pop the frame
LayoutAfterInsert(layout, inserted) ==
    IF inserted \in { "end", "in" } THEN SubSeq(layout, 1, Len(layout) - 1) ELSE layout

\* the layout stack after a real token at this column: an opener as old token
\* pushes a frame
LayoutAfterFound(layout, old_token, column) ==
    IF di_is_dict(old_token) /\ old_token.op \in LayoutOpeners
    THEN Append(layout, [op |-> old_token.op, column |-> column])
    ELSE layout

\* the return of di_lex with a token inserted by the layout rule
InsertedToken(lexer, w, insert) ==
    [exit |-> FALSE, inserted |-> TRUE,
     token |-> set_token_fields(insert, di_null, w.line, w.column),
     lexer |-> update_lexer_offsets(
                   [lexer EXCEPT !.layout = LayoutAfterInsert(lexer.layout, insert)],
                   w.start, w.line, w.column)]

\* the end of di_lex from the token patterns on: exit(-1) on an unmatched
\* token, else the label found
FoundToken(lexer, old_token, w, m) ==
    IF ~m.found
    THEN [exit |-> TRUE, inserted |-> FALSE, token |-> old_token, lexer |-> lexer]
    ELSE [exit |-> FALSE, inserted |-> FALSE,
          token |-> set_token_fields(m.op, m.data, w.line, w.column),
          lexer |-> update_lexer_offsets(
                        [lexer EXCEPT !.layout =
                             LayoutAfterFound(lexer.layout, old_token, w.column)],
                        m.match_end, w.line,
                        w.column + (m.match_end - m.match_start))]

\* di_lex once the leading whitespace is consumed
LexAt(lexer, old_token, w, insert) ==
    IF insert # "" THEN InsertedToken(lexer, w, insert)
    ELSE FoundToken(lexer, old_token, w,
                    MatchToken(lexer.source, w,
                               ~(di_is_dict(old_token) /\ old_token.op \in DivisionContext)))

\* the position di_lex consumes the leading whitespace to
TokenStart(lexer, ms, me) ==
    ConsumeWhitespace(lexer.source,
                      [start |-> lexer.offset, line |-> lexer.line,
                       column |-> lexer.column, match_start |-> ms, match_end |-> me])

\* di_lex(&lexer, old_token): the token returned and the lexer left behind.
\* ms and me are the values match_start and match_end hold before any pattern
\* has set them.  exit: the call ended the process with "Unmatched token";
\* inserted: the token is one the layout rule inserted.
di_lex(lexer, old_token, ms, me) ==
    LexAt(lexer, old_token, TokenStart(lexer, ms, me),
          LayoutInsert(lexer.layout, old_token, TokenStart(lexer, ms, me).column))

\* the op and data of a token, without its position
TokenOpData(t) ==
    IF "data" \in DOMAIN t THEN <<t.op, t.data>> ELSE <<t.op>>

RECURSIVE TokenStream(_, _)
\* the rest of the token stream once a di_lex call has returned r
StreamFrom(r) ==
    IF r.exit THEN << <<"exit">> >>
    ELSE IF r.token.op = "eof" THEN << TokenOpData(r.token) >>
    ELSE << TokenOpData(r.token) >> \o TokenStream(r.lexer, r.token)

\* the loop of the lex command: di_lex until the eof token (or exit), each
\* token handed back as old_token
TokenStream(lexer, old_token) ==
    StreamFrom(di_lex(lexer, old_token, 0, 0))

\* the ops and data of all tokens lexed from a source
LexAll(source) ==
    TokenStream(di_lexer_create(source), di_null)

(***************************************************************************)
(* The inputs.  A layout source is a few lines joined by newlines, each an *)
(* indentation followed by one of a few line contents.                     *)
(***************************************************************************)
Indents ==
    { << >>, <<" ">> }

Contents ==
    { << >>, <<"x">>, <<"d", "o">>, <<"l", "e", "t", " ", "x">>, <<";">>,
      <<"e", "n", "d">>, <<"#">> }

SourceLines ==
    { i \o c : i \in Indents, c \in Contents }

RECURSIVE Join(_, _)
\* the parts joined with the separator sep between them
Join(parts, sep) ==
    IF parts = << >> THEN << >>
    ELSE IF Len(parts) = 1 THEN parts[1]
    ELSE parts[1] \o sep \o Join(Tail(parts), sep)

LayoutSources ==
    { Join(ls, <<"\n">>) : ls \in UNION { [1..n -> SourceLines] : n \in 0..MaxLines } }

\* A token source is a few lexemes in a row: a word followed by a space, or
\* a number, an operator, a regex literal or a name that begins with an
\* underscore with nothing after it.
Words ==
    { <<"c", "a", "s", "e">>, <<"o", "f">>, <<"d", "o">>, <<"e", "n", "d">>,
      <<"l", "e", "t">>, <<"i", "n">>, <<"w", "h", "e", "r", "e">>, <<"i", "f">>,
      <<"t", "h", "e", "n">>, <<"e", "l", "s", "e">>, <<"a", "n", "d">>,
      <<"o", "r">>, <<"n", "o", "t">>, <<"m", "o", "d">>, <<"d", "i", "v">>,
      <<"x">> }

Signs ==
    { <<"x">>, <<"2">>, <<"/">>, <<"/", "a", "/">>, <<"=">>, <<"<">>,
      <<"(">>, <<")">>, <<"]">>, <<"}">>, <<";">>,
      <<"_">>, <<"_", "t", "m", "p">> }

Lexemes ==
    Signs \cup { w \o <<" ">> : w \in Words }

\* scenario 1 of the specification: x / 2 ; y = /a*/
DivisionRegexScenario ==
    <<"x", " ", "/", " ", "2", " ", ";", " ", "y", " ", "=", " ",
      "/", "a", "*", "/">>

WordSources ==
    { Join(ws, << >>) : ws \in UNION { [1..n -> Lexemes] : n \in 0..MaxWords } }
        \cup { DivisionRegexScenario }

\* what an uninitialized int may hold
Uninitialized ==
    { 0, 1 }

(***************************************************************************)
(* The state: the parser's lexer and current token (create_parser), where  *)
(* the run stands, and a record of the last call and of the calls so far.  *)
(***************************************************************************)
VARIABLES
    lexer,      \* the lexer dict: source, offset, line, column, layout
    token,      \* the parser's current token, di_null before the first fetch
    status,     \* where the run stands: "lexing", "eof", "exit" for a lexer run
    old_lexer,  \* the lexer handed to the last di_lex call
    old_token,  \* the old_token handed to the last di_lex call
    inserted,   \* whether the last token was inserted by the layout rule
    pushes,     \* the number of layout frames pushed so far
    closers,    \* the number of end/in tokens inserted so far
    stream,     \* the tokens returned so far
    input,      \* what the source was built from, null for a lexer run
    tree,       \* the tree di_parse returned, null before
    annotated,  \* the tree di_annotate returned, null before
    failure,    \* the error that ended the process, null while it runs
    printed,    \* the warnings printed by di_annotate
    heap,       \* the array objects allocated: reference counter and elements
    array,      \* the reference the array operations are called with
    holders,    \* the references taken by di_incref, each with what it saw
    written     \* the array operation that came last, with the object it was called on

vars ==
    <<lexer, token, status, old_lexer, old_token, inserted, pushes, closers, stream,
      input, tree, annotated, failure, printed, heap, array, holders, written>>

\* the state of the array runs
arrays ==
    <<heap, array, holders, written>>

\* create_parser, before its first fetch_next_token
InitFrom(sources) ==
    /\ \E source \in sources : lexer = di_lexer_create(source)
    /\ token = di_null
    /\ status = "lexing"
    /\ old_lexer = lexer
    /\ old_token = di_null
    /\ inserted = FALSE
    /\ pushes = 0
    /\ closers = 0
    /\ stream = << >>
    /\ input = di_null
    /\ tree = di_null
    /\ annotated = di_null
    /\ failure = di_null
    /\ printed = << >>
    /\ heap = << >>
    /\ array = 0
    /\ holders = << >>
    /\ written = di_null

Init ==
    InitFrom(LayoutSources)

\* the parser state after a di_lex call that returned r
Fetched(r) ==
    /\ lexer' = r.lexer
    /\ token' = r.token
    /\ status' = IF r.exit THEN "exit"
                 ELSE IF r.token.op = "eof" THEN "eof" ELSE "lexing"
    /\ old_lexer' = lexer
    /\ old_token' = token
    /\ inserted' = r.inserted
    /\ pushes' = IF ~r.exit /\ ~r.inserted /\ di_is_dict(token)
                    /\ token.op \in LayoutOpeners
                 THEN pushes + 1 ELSE pushes
    /\ closers' = IF r.inserted /\ r.token.op \in { "end", "in" }
                  THEN closers + 1 ELSE closers
    /\ stream' = IF r.exit THEN stream
                 ELSE Append(stream, [token |-> r.token, inserted |-> r.inserted])
    /\ UNCHANGED <<input, tree, annotated, failure, printed>>
    /\ UNCHANGED arrays

\* fetch_next_token: one di_lex call with the current token as old_token; the
\* driver stops at eof
fetch_next_token ==
    /\ status = "lexing"
    /\ \E ms \in Uninitialized, me \in Uninitialized :
          Fetched(di_lex(lexer, token, ms, me))

Next ==
    fetch_next_token

\* the lexer run over the layout sources
Spec ==
    Init /\ [][Next]_vars

InitWords ==
    InitFrom(WordSources)

\* the lexer run over the token sources
SpecWords ==
    InitWords /\ [][Next]_vars

(***************************************************************************)
(* What the claims speak of.                                               *)
(***************************************************************************)
\* fetch_next_token has made at least one di_lex call
Called ==
    status = "exit" \/ stream # << >>

\* where the last di_lex call found its token to start: start, line, column
LastStart ==
    TokenStart(old_lexer, 0, 0)

\* the innermost frame the last di_lex call was handed
LastTop ==
    old_lexer.layout[Len(old_lexer.layout)]

\* the last call returned a real token found at LastStart
RealTokenReturned ==
    /\ status # "exit"
    /\ ~inserted
    /\ token.line = LastStart.line
    /\ token.column = LastStart.column
    /\ (token.op = "eof" \/ lexer.offset > LastStart.start)

C2_CloserPerCall ==
    (Called /\ Len(old_lexer.layout) > 0 /\ LastStart.column < LastTop.column) =>
        /\ di_is_dict(old_token)
        /\ status = "lexing"
        /\ inserted
        /\ token = [op |-> IF LastTop.op = "let" THEN "in" ELSE "end",
                    line |-> LastStart.line, column |-> LastStart.column]
        /\ lexer.layout = SubSeq(old_lexer.layout, 1, Len(old_lexer.layout) - 1)
        /\ lexer.offset = LastStart.start
        /\ TokenStart(lexer, 0, 0).column = LastStart.column
        /\ TokenStart(lexer, 0, 0).start = LastStart.start

\* two frames have been closed by successive calls, innermost first
C2_Witness ==
    /\ inserted
    /\ token.op = "end"
    /\ old_token.op = "in"
    /\ Len(old_lexer.layout) = 1
    /\ Len(stream) >= 2
    /\ stream[Len(stream) - 1].inserted

\* the tokens of the stream that the layout rule inserted as closers
InsertedClosers ==
    { i \in 1..Len(stream) : stream[i].inserted /\ stream[i].token.op \in { "end", "in" } }

(***************************************************************************)
(* C3.  At every point of the token stream the number of inserted end/in   *)
(* tokens is at most the number of frames pushed, the stack depth equals   *)
(* pushes minus inserted closers, every frame on the stack was pushed for  *)
(* an earlier do/of/let/where token, and an inserted closer pops exactly   *)
(* one frame.                                                              *)
(***************************************************************************)
C3_LayoutBalance ==
    /\ closers = Cardinality(InsertedClosers)
    /\ closers <= pushes
    /\ Len(lexer.layout) = pushes - closers
    /\ \A k \in 1..Len(lexer.layout) :
          /\ lexer.layout[k].op \in LayoutOpeners
          /\ \E i \in 1..Len(stream) :
                ~stream[i].inserted /\ stream[i].token.op = lexer.layout[k].op
    /\ (Called /\ inserted /\ token.op \in { "end", "in" }) =>
          /\ Len(old_lexer.layout) >= 1
          /\ lexer.layout = SubSeq(old_lexer.layout, 1, Len(old_lexer.layout) - 1)
          /\ LastTop.op \in LayoutOpeners

\* a closer has been inserted while another frame stays open
C3_Witness ==
    /\ inserted
    /\ token.op \in { "end", "in" }
    /\ pushes = 2
    /\ closers = 1
    /\ Len(lexer.layout) = 1

(***************************************************************************)
(* C4.  The eof token is returned only once every frame left on the       *)
(* layout stack has been closed by an inserted closer: the call that       *)
(* returns eof finds the stack empty.                                      *)
(***************************************************************************)
C4_EofFlushesLayout ==
    status = "eof" => Len(old_lexer.layout) = 0

\* the real tokens of the stream
RealTokens ==
    { i \in 1..Len(stream) : ~stream[i].inserted }

\* the openers of the stream that a real token of the source has followed
OpenersFollowed ==
    { i \in RealTokens :
        /\ stream[i].token.op \in LayoutOpeners
        /\ \E j \in RealTokens : j > i /\ stream[j].token.op # "eof" }

(***************************************************************************)
(* C5.  Every do, of, let or where token pushes exactly one frame, whose   *)
(* column is that of the next real token, also when tokens are inserted    *)
(* between the opener and that real token (stated for a next real token    *)
(* of the source text: at least one push for each opener so followed).     *)
(***************************************************************************)
C5_OpenerPushesFrame ==
    /\ pushes >= Cardinality(OpenersFollowed)
    /\ (status = "lexing" /\ ~inserted /\ Len(stream) >= 2
          /\ (Len(stream) - 1) \in OpenersFollowed) =>
          /\ Len(lexer.layout) > 0
          /\ lexer.layout[Len(lexer.layout)] =
                [op |-> stream[Len(stream) - 1].token.op, column |-> token.column]

(***************************************************************************)
(* C6.  An end or in token written in the source pops the frame it closes: *)
(* after a real end (in) with a frame opened by do, of or where (by let)   *)
(* innermost, that frame is gone from the stack.                           *)
(***************************************************************************)
C6_ExplicitEndPops ==
    (Called /\ status = "lexing" /\ ~inserted /\ Len(old_lexer.layout) > 0
        /\ old_token.op \notin LayoutOpeners
        /\ \/ (token.op = "end" /\ LastTop.op # "let")
           \/ (token.op = "in" /\ LastTop.op = "let")) =>
        lexer.layout = SubSeq(old_lexer.layout, 1, Len(old_lexer.layout) - 1)

\* a later slash on the same line closes the one at offset start
SlashClosed(s, start) ==
    \E j \in (start + 1)..(Len(s) - 1) :
        /\ At(s, j) = "/"
        /\ \A k \in (start + 1)..(j - 1) : At(s, k) \notin Newline

(***************************************************************************)
(* C7.  Where the input has a slash, the old token alone decides: after    *)
(* ident, lit, ")", "]" or "}" the token is the division "/"; after any    *)
(* other token, or none, a slash closed on its line gives one regex token  *)
(* whose data is the text between the slashes.  Scenario 1 lexes to ident  *)
(* x, "/", lit 2, ";", ident y, "=", regex with data a-star, eof.          *)
(***************************************************************************)
C7_DivisionOrRegex ==
    /\ (Called /\ ~inserted /\ At(lexer.source, LastStart.start) = "/") =>
          IF di_is_dict(old_token) /\ old_token.op \in { "ident", "lit", ")", "]", "}" }
          THEN /\ status = "lexing"
               /\ token = [op |-> "/", line |-> LastStart.line,
                           column |-> LastStart.column]
               /\ lexer.offset = LastStart.start + 1
          ELSE IF SlashClosed(lexer.source, LastStart.start)
          THEN /\ status = "lexing"
               /\ token.op = "regex"
               /\ lexer.offset >= LastStart.start + 2
               /\ At(lexer.source, lexer.offset - 1) = "/"
               /\ token.data = [string |-> Slice(lexer.source, LastStart.start + 1,
                                                 lexer.offset - 1)]
          ELSE status = "exit"
    /\ (lexer.source = DivisionRegexScenario /\ status = "eof") =>
          [i \in 1..Len(stream) |-> TokenOpData(stream[i].token)] =
              << <<"ident", [string |-> "x"]>>, <<"/">>, <<"lit", [int |-> 2]>>,
                 <<";">>, <<"ident", [string |-> "y"]>>, <<"=">>,
                 <<"regex", [string |-> "a*"]>>, <<"eof">> >>

\* the scenario has been lexed to its end, its last slash as a regex
C7_Witness ==
    /\ lexer.source = DivisionRegexScenario
    /\ status = "eof"
    /\ Len(stream) = 8
    /\ stream[2].token.op = "/"
    /\ stream[7].token.op = "regex"

\* s with the bytes ins put in before offset i
InsertAt(s, i, ins) ==
    SubSeq(s, 1, i) \o ins \o SubSeq(s, i + 1, Len(s))

\* the offsets where a line of s ends: before a newline, and at the end
LineEnds(s) ==
    { i \in 0..Len(s) : i = Len(s) \/ At(s, i) \in Newline }

\* s with a comment or a trailing blank added at the end of one line
CommentOrBlankAdded(s) ==
    { InsertAt(s, i, ins) : i \in LineEnds(s), ins \in { <<" ">>, <<"#">>, <<"#", "x">> } }

(***************************************************************************)
(* C8.  For a source that lexes successfully, adding a # comment or        *)
(* trailing horizontal whitespace at the end of any line, the last one     *)
(* included, yields the same sequence of token ops and data.               *)
(***************************************************************************)
C8_CommentsAndBlanksInvisible ==
    (stream = << >> /\ status = "lexing"
        /\ LexAll(lexer.source)[Len(LexAll(lexer.source))] # <<"exit">>) =>
        \A v \in CommentOrBlankAdded(lexer.source) : LexAll(v) = LexAll(lexer.source)

(***************************************************************************)
(* C9.  Where the input has =< the lexer returns the single token "=<".    *)
(***************************************************************************)
C9_EqualLessIsOneToken ==
    (Called /\ ~inserted /\ At(lexer.source, LastStart.start) = "="
        /\ At(lexer.source, LastStart.start + 1) = "<") =>
        /\ status = "lexing"
        /\ token.op = "=<"
        /\ lexer.offset = LastStart.start + 2

\* the keyword set of the specification
SpecKeywords ==
    { "case", "of", "do", "end", "let", "in", "where", "if", "then", "else",
      "and", "or", "not", "mod", "div" }

(***************************************************************************)
(* C10.  A word of the keyword set is returned as a token whose op is the  *)
(* word and which has no data, never as an ident.                          *)
(***************************************************************************)
C10_KeywordsAreOps ==
    (Called /\ ~inserted /\ status # "exit"
        /\ Slice(lexer.source, LastStart.start,
                 RunEnd(lexer.source, LastStart.start, WordChar)) \in SpecKeywords) =>
        /\ token.op = Slice(lexer.source, LastStart.start,
                            RunEnd(lexer.source, LastStart.start, WordChar))
        /\ "data" \notin DOMAIN token

(***************************************************************************)
(* C11.  An identifier may start with a letter, "$" or "_": at a name that *)
(* begins with "_" (such as _ or _tmp) di_lex returns an ident token that  *)
(* carries the whole name, instead of stopping with "Unmatched token".     *)
(***************************************************************************)
C11_UnderscoreStartsIdent ==
    (Called /\ ~inserted /\ At(old_lexer.source, LastStart.start) = "_") =>
        /\ status = "lexing"
        /\ token.op = "ident"
        /\ token.data =
              [string |-> Slice(old_lexer.source, LastStart.start,
                                RunEnd(old_lexer.source, LastStart.start + 1,
                                       WordChar))]

(***************************************************************************)
(* Dicts.  A dict is a function from keys to values; a syntax tree node is *)
(* a dict with the keys syntax, line and column, an array is a sequence.   *)
(***************************************************************************)
di_dict_empty ==
    << >>

\* di_dict_get: null when the dict has no such key
di_dict_get(dict, key) ==
    IF key \in DOMAIN dict THEN dict[key] ELSE di_null

di_dict_contains(dict, key) ==
    key \in DOMAIN dict

di_dict_set(dict, key, value) ==
    [k \in DOMAIN dict \cup { key } |-> IF k = key THEN value ELSE dict[k]]

di_dict_delete(dict, key) ==
    [k \in DOMAIN dict \ { key } |-> dict[k]]

(***************************************************************************)
(* The parser.  A parser state p holds the current token of the C parser   *)
(* dict, the value e the last parsing function returned, and the error     *)
(* that ended the process (null while it runs).  Every parsing function    *)
(* maps a state to the state it leaves; a state with an error is left as   *)
(* it is by all of them, which is how exit(-1) is carried out of the       *)
(* nested calls.                                                           *)
(*                                                                         *)
(* The lexer of the C parser dict is only touched by fetch_next_token,     *)
(* which hands di_lex the token of the call before: what a call returns    *)
(* depends on the source alone, not on what the parser did with the tokens *)
(* before.  The state holds, in place of the lexer, what the calls still   *)
(* to come return (lexed), up to the eof token or the call that exits.     *)
(***************************************************************************)
Failed(p) ==
    p.error # di_null

\* error(message, line, col): the diagnostic printed before exit(-1)
error(p, message, line, col) ==
    [p EXCEPT !.error = [message |-> message, line |-> line, column |-> col]]

\* what the parser sees of a di_lex call that returned r: the token, or the
\* exit with the position of the unmatched token, where the lexer stays
Fetch(r, ms, me) ==
    IF r.exit
    THEN [exit |-> TRUE, line |-> TokenStart(r.lexer, ms, me).line,
          column |-> TokenStart(r.lexer, ms, me).column]
    ELSE [exit |-> FALSE, token |-> r.token]

RECURSIVE LexedFrom(_, _, _)
\* the di_lex calls from the one that returned r on; ms and me are what
\* di_lex finds in its match_start and match_end
LexedFrom(r, ms, me) ==
    IF r.exit \/ r.token.op = "eof" THEN << Fetch(r, ms, me) >>
    ELSE << Fetch(r, ms, me) >> \o LexedFrom(di_lex(r.lexer, r.token, ms, me), ms, me)

\* the parser state after a di_lex call that returned r
Lexed(p, r) ==
    IF r.exit THEN error(p, "Unmatched token", r.line, r.column)
    ELSE [p EXCEPT !.token = r.token, !.lexed = Tail(@)]

\* fetch_next_token(p) of the parser
next_token(p) ==
    IF p.error # di_null THEN p ELSE Lexed(p, Head(p.lexed))

create_parser(source, ms, me) ==
    next_token([lexed |-> LexedFrom(di_lex(di_lexer_create(source), di_null, ms, me),
                                    ms, me),
                token |-> di_null, e |-> di_null, error |-> di_null])

is_token(p, token_op) ==
    p.error = di_null /\ p.token.op = token_op

\* try_token: the state it leaves; its boolean is is_token before the call
try_token(p, token_op) ==
    IF is_token(p, token_op) THEN next_token(p) ELSE p

eat(p, token_op) ==
    IF p.error # di_null THEN p
    ELSE IF p.token.op = token_op THEN next_token(p)
    ELSE error(p, "Unexpected " \o p.token.op \o ". Expecting " \o token_op \o ".",
               p.token.line, p.token.column)

error_unexpected_token(p) ==
    error(p, "Unexpected " \o p.token.op, p.token.line, p.token.column)

\* the state p with e as the value returned
Return(p, e) ==
    [p EXCEPT !.e = e]

\* mkexpr(op, line, col, NULL): the node before its other keys are set
mkexpr(op, line, col) ==
    [syntax |-> op, line |-> line, column |-> col]

\* the state r with, as the value returned, the node completed with the
\* value r returned under key
With(r, node, key) ==
    Return(r, di_dict_set(node, key, r.e))

\* mkbinopexpr with the position of the right operand
mkbinopexpr_RightPosition(op_str, left, right) ==
    [syntax |-> op_str, line |-> right.line, column |-> right.column,
     left |-> left, right |-> right]

\* mkbinopexpr: line and column are copied from the left operand
mkbinopexpr(op_str, left, right) ==
    [syntax |-> op_str, line |-> left.line, column |-> left.column,
     left |-> left, right |-> right]

(***************************************************************************)
(* The validation of expressions and patterns.  A validator returns the    *)
(* error it raises, or null.                                               *)
(***************************************************************************)
error_context(e, ctx) ==
    [message |-> "Unexpected " \o e.syntax \o " in " \o ctx \o " context.",
     line |-> e.line, column |-> e.column]

\* the error of the first of two checks that raises one
FirstError(first, second) ==
    IF first # di_null THEN first ELSE second

\* the binops array of validate_children
ValidatedOperators ==
    { "and", "or", "not", "<", ">", "=<", ">=", "==", "!=",
      "+", "-", "*", "/", "div", "mod", "~", "@", "=" }

\* the invalids array of validate_pattern
InvalidPatterns ==
    { "do", "if", "case", "apply", "and", "or", "not",
      "<", ">", "=<", ">=", "==", "!=", "+", "-", "*", "/", "div", "mod" }

RECURSIVE validate_expr(_), validate_pattern(_), validate_array(_, _),
          validate_entries(_, _), validate_children(_, _)

\* the call validator(e) for validator = &validate_expr or &validate_pattern
Validator(e, validator) ==
    IF validator = "expression" THEN validate_expr(e) ELSE validate_pattern(e)

validate_array(es, validator) ==
    IF es = << >> THEN di_null
    ELSE FirstError(Validator(Head(es), validator),
                    validate_array(Tail(es), validator))

validate_entries(entries, validator) ==
    IF entries = << >> THEN di_null
    ELSE FirstError(Validator(Head(entries).key, validator),
            FirstError(Validator(Head(entries).value, validator),
                       validate_entries(Tail(entries), validator)))

\* validate_children reads the key "op" of the node; the nodes of the parser
\* carry their kind under "syntax" and have no key "op", so op is null and
\* equals none of the strings it is compared with
validate_children(e, validator) ==
    IF ~di_dict_contains(e, "op") THEN di_null
    ELSE IF e.op \in ValidatedOperators
    THEN FirstError(IF di_dict_contains(e, "left")
                    THEN Validator(e.left, validator) ELSE di_null,
                    Validator(e.right, validator))
    ELSE IF e.op = "apply"
    THEN FirstError(Validator(e.func, validator),
                    validate_array(e.args, validator))
    ELSE IF e.op = "array" THEN validate_array(e.elems, validator)
    ELSE IF e.op = "dict" THEN validate_entries(e.entries, validator)
    ELSE IF e.op = "dictup"
    THEN FirstError(Validator(e.subj, validator),
                    validate_entries(e.entries, validator))
    ELSE di_null

validate_expr(e) ==
    IF e.syntax \in { "=", "regex" } THEN error_context(e, "expression")
    ELSE validate_children(e, "expression")

validate_pattern(e) ==
    IF e.syntax \in InvalidPatterns THEN error_context(e, "pattern")
    ELSE validate_children(e, "pattern")

\* the state r after a validator returned or raised err
Checked(r, err) ==
    IF err = di_null THEN r ELSE [r EXCEPT !.error = err]

\* validate_expr, validate_pattern on the value r returned
validated_expr(r) ==
    IF r.error # di_null THEN r ELSE Checked(r, validate_expr(r.e))

validated_pattern(r) ==
    IF r.error # di_null THEN r ELSE Checked(r, validate_pattern(r.e))

(***************************************************************************)
(* Function definitions and blocks.                                        *)
(***************************************************************************)
is_func_def(e) ==
    e.syntax = "=" /\ e.left.syntax = "apply"

\* the lhs of a definition turned into a clause: it keeps its line and
\* column, args become pats, the rhs becomes body
FuncClause(e) ==
    [syntax |-> "clause", line |-> e.left.line, column |-> e.left.column,
     pats |-> e.left.args, body |-> e.right]

\* the error add_func_def_clause raises before it looks up the definition
FuncDefError(e) ==
    IF e.left.func.syntax # "var"
    THEN [message |-> "Invalid function name.", line |-> e.line,
          column |-> e.column]
    ELSE FirstError(validate_array(e.left.args, "pattern"),
                    validate_expr(e.right))

\* add_func_def_clause without the comparison of the arities
add_func_def_clause_AnyArity(funcdefs, e) ==
    LET name == e.left.func.name IN
    IF FuncDefError(e) # di_null THEN [error |-> FuncDefError(e)]
    ELSE IF di_is_null(di_dict_get(funcdefs, name.string))
    THEN [error |-> di_null,
          funcdefs |-> di_dict_set(funcdefs, name.string,
                           [name |-> name, arity |-> Len(e.left.args),
                            clauses |-> << FuncClause(e) >>])]
    ELSE [error |-> di_null,
          funcdefs |-> di_dict_set(funcdefs, name.string,
                           [funcdefs[name.string] EXCEPT
                                !.clauses = Append(@, FuncClause(e))])]

\* add_func_def_clause putting the clause before the earlier ones
add_func_def_clause_Unshift(funcdefs, e) ==
    LET name == e.left.func.name IN
    IF FuncDefError(e) # di_null THEN [error |-> FuncDefError(e)]
    ELSE IF di_is_null(di_dict_get(funcdefs, name.string))
    THEN [error |-> di_null,
          funcdefs |-> di_dict_set(funcdefs, name.string,
                           [name |-> name, arity |-> Len(e.left.args),
                            clauses |-> << FuncClause(e) >>])]
    ELSE IF Len(e.left.args) # funcdefs[name.string].arity
    THEN [error |-> [message |-> "Arity mismatches previous clauses.",
                     line |-> e.line, column |-> e.column]]
    ELSE [error |-> di_null,
          funcdefs |-> di_dict_set(funcdefs, name.string,
                           [funcdefs[name.string] EXCEPT
                                !.clauses = << FuncClause(e) >> \o @])]

\* add_func_def_clause(funcdefs, e) for an e with is_func_def(e): the error
\* raised, or null and the funcdefs returned
add_func_def_clause(funcdefs, e) ==
    LET name == e.left.func.name IN
    IF FuncDefError(e) # di_null THEN [error |-> FuncDefError(e)]
    ELSE IF di_is_null(di_dict_get(funcdefs, name.string))
    THEN [error |-> di_null,
          funcdefs |-> di_dict_set(funcdefs, name.string,
                           [name |-> name, arity |-> Len(e.left.args),
                            clauses |-> << FuncClause(e) >>])]
    ELSE IF Len(e.left.args) # funcdefs[name.string].arity
    THEN [error |-> [message |-> "Arity mismatches previous clauses.",
                     line |-> e.line, column |-> e.column]]
    ELSE [error |-> di_null,
          funcdefs |-> di_dict_set(funcdefs, name.string,
                           [funcdefs[name.string] EXCEPT
                                !.clauses = Append(@, FuncClause(e))])]

\* the validation of a block entry that is no function definition
EntryError(e) ==
    IF e.syntax = "="
    THEN FirstError(validate_pattern(e.left), validate_expr(e.right))
    ELSE validate_expr(e)

RECURSIVE expr(_), block_entry(_, _, _, _, _)

\* block after an entry: the loop goes on at a ";", else "end" is eaten and
\* the do node returned
block_next(r, es, fs, l, c) ==
    IF r.error = di_null /\ r.token.op = ";"
    THEN block_entry(expr(next_token(r)), es, fs, l, c)
    ELSE Return(eat(r, "end"),
                [syntax |-> "do", line |-> l, column |-> c, seq |-> es,
                 defs |-> fs])

\* block after add_func_def_clause returned or raised a
block_defined(r, es, a, l, c) ==
    IF a.error # di_null THEN [r EXCEPT !.error = a.error]
    ELSE block_next(r, es, a.funcdefs, l, c)

\* the body of the loop of block, r the state after e = expr(p)
block_entry(r, es, fs, l, c) ==
    IF r.error # di_null THEN r
    ELSE IF is_func_def(r.e)
    THEN block_defined(r, es, add_func_def_clause(fs, r.e), l, c)
    ELSE block_next(Checked(r, EntryError(r.e)), Append(es, r.e), fs, l, c)

block(p, l, c) ==
    IF p.error # di_null THEN p
    ELSE block_entry(expr(p), << >>, di_dict_empty, l, c)

(***************************************************************************)
(* Expressions.                                                            *)
(***************************************************************************)
RECURSIVE leftassoc_expr(_, _), expr4(_)

\* the operator tokens handed to leftassoc_expr by expr0 .. expr3: exprN(p)
\* is leftassoc_expr(p, N)
Binops(level) ==
    CASE level = 0 -> { "and", "or" }
      [] level = 1 -> { "<", ">", "=<", ">=", "==", "!=" }
      [] level = 2 -> { "+", "-", "~", "@" }
      [] level = 3 -> { "*", "/", "div", "mod" }

\* the nextexpr handed to leftassoc_expr by expr0 .. expr3: expr1, expr2,
\* expr3, expr4
nextexpr(p, level) ==
    IF level = 3 THEN expr4(p) ELSE leftassoc_expr(p, level + 1)

\* the state r2 after the right operand, with the binary node returned
Binop(op_str, left, r2) ==
    IF r2.error # di_null THEN r2 ELSE Return(r2, mkbinopexpr(op_str, left, r2.e))

RECURSIVE leftassoc_loop(_, _)
\* the loop of leftassoc_expr, r1 the state after e1
leftassoc_loop(r1, level) ==
    IF r1.error # di_null THEN r1
    ELSE IF r1.token.op \in Binops(level)
    THEN leftassoc_loop(Binop(r1.token.op, r1.e,
                              nextexpr(next_token(r1), level)), level)
    ELSE r1

RECURSIVE leftassoc_levels(_, _, _)
\* leftassoc_expr builds the expression of a level by its loop over the
\* expressions of the next level: the expression of a level is expr4 with
\* the loops of the levels 3 down to lowest around it, r the state after the
\* loops above level
leftassoc_levels(r, level, lowest) ==
    IF r.error # di_null \/ level < lowest THEN r
    ELSE leftassoc_levels(leftassoc_loop(r, level), level - 1, lowest)

leftassoc_expr(p, level) ==
    leftassoc_levels(expr4(p), 3, level)

\* expr after e0: "=" is right associative
expr_assign(r0) ==
    IF r0.error # di_null THEN r0
    ELSE IF r0.token.op = "=" THEN Binop("=", r0.e, expr(next_token(r0)))
    ELSE r0

\* expr: e = expr0(p), then the "="
expr(p) ==
    expr_assign(leftassoc_expr(p, 0))

RECURSIVE exprs_until(_, _, _)
\* the loop over a comma separated list, r the state after an element, es
\* the elements before it
exprs_until(r, es, close) ==
    IF r.error = di_null /\ r.token.op = ","
    THEN exprs_until(expr(next_token(r)), Append(es, r.e), close)
    ELSE Return(eat(r, close), Append(es, r.e))

\* the arguments of an application or the elements of an array, up to close
expr_list(p, close) ==
    IF is_token(p, close) THEN Return(next_token(p), << >>)
    ELSE exprs_until(expr(p), << >>, close)

RECURSIVE entry_key(_, _)
\* the loop over the entries of a dict, rv the state after a value
entry_value(rv, k, entries) ==
    IF rv.error = di_null /\ rv.token.op = ","
    THEN entry_key(expr(next_token(rv)),
                   Append(entries, [syntax |-> "entry", key |-> k, value |-> rv.e]))
    ELSE Return(eat(rv, "}"),
                Append(entries, [syntax |-> "entry", key |-> k, value |-> rv.e]))

\* rk the state after a key
entry_key(rk, entries) ==
    IF rk.error # di_null THEN rk
    ELSE entry_value(expr(eat(rk, ":")), rk.e, entries)

\* the entries of a dict constructor or a dict update, up to "}"
entry_list(p) ==
    IF is_token(p, "}") THEN Return(next_token(p), << >>)
    ELSE entry_key(expr(p), << >>)

RECURSIVE expr4_loop(_)
\* the loop of expr4, r the state after e
expr4_loop(r) ==
    IF r.error # di_null THEN r
    ELSE CASE r.token.op = "(" ->
                expr4_loop(With(expr_list(next_token(r), ")"),
                                di_dict_set(mkexpr("apply", r.token.line,
                                                   r.token.column),
                                            "func", r.e),
                                "args"))
           [] r.token.op = "{" ->
                expr4_loop(With(entry_list(next_token(r)),
                                di_dict_set(mkexpr("dictup", r.token.line,
                                                   r.token.column),
                                            "subj", r.e),
                                "entries"))
           [] OTHER -> r

RECURSIVE case_clause_pat(_, _)
\* the loop of case_clauses, r the state after the validated body of a
\* clause; for case, pats is a singleton array
case_clause_body(r, pat, clauses) ==
    IF r.error = di_null /\ r.token.op = ";"
    THEN case_clause_pat(validated_pattern(expr(next_token(r))),
                         Append(clauses, [syntax |-> "clause", pats |-> << pat >>,
                                          body |-> r.e]))
    ELSE Return(eat(r, "end"),
                Append(clauses, [syntax |-> "clause", pats |-> << pat >>,
                                 body |-> r.e]))

\* r the state after the validated pattern of a clause
case_clause_pat(r, clauses) ==
    IF r.error # di_null THEN r
    ELSE case_clause_body(validated_expr(expr(eat(r, "->"))), r.e, clauses)

case_clauses(p) ==
    case_clause_pat(validated_pattern(expr(p)), << >>)

\* expr5 at "case", rs the state after the validated subject
CaseOf(tok, rs) ==
    IF rs.error # di_null THEN rs
    ELSE With(case_clauses(eat(rs, "of")),
              di_dict_set(mkexpr("case", tok.line, tok.column), "subj", rs.e),
              "clauses")

\* expr5 at "if", rt the state after the validated then branch
IfElse(tok, cond, rt) ==
    IF rt.error # di_null THEN rt
    ELSE With(validated_expr(expr(eat(try_token(rt, ";"), "else"))),
              di_dict_set(di_dict_set(mkexpr("if", tok.line, tok.column),
                                      "cond", cond),
                          "then", rt.e),
              "else")

\* rc the state after the validated condition
IfThen(tok, rc) ==
    IF rc.error # di_null THEN rc
    ELSE IfElse(tok, rc.e, validated_expr(expr(eat(rc, "then"))))

\* the node of an ident, lit or regex token: its data under key
Atom(p, syntax, key) ==
    Return(next_token(p),
           di_dict_set(mkexpr(syntax, p.token.line, p.token.column), key,
                       di_dict_get(p.token, "data")))

expr5(p) ==
    IF p.error # di_null THEN p
    ELSE CASE p.token.op = "case" ->
                CaseOf(p.token, validated_expr(expr(next_token(p))))
           [] p.token.op = "do" ->
                block(next_token(p), p.token.line, p.token.column)
           [] p.token.op = "if" ->
                IfThen(p.token, validated_expr(expr(next_token(p))))
           [] p.token.op = "[" ->
                With(expr_list(next_token(p), "]"),
                     mkexpr("array", p.token.line, p.token.column), "elems")
           [] p.token.op = "{" ->
                With(entry_list(next_token(p)),
                     mkexpr("dict", p.token.line, p.token.column), "entries")
           [] p.token.op = "ident" -> Atom(p, "var", "name")
           [] p.token.op = "lit" -> Atom(p, "lit", "value")
           [] p.token.op = "regex" -> Atom(p, "regex", "regex")
           [] p.token.op \in { "-", "not" } ->
                With(expr(next_token(p)),
                     mkexpr(p.token.op, p.token.line, p.token.column), "right")
           [] p.token.op = "(" -> eat(expr(next_token(p)), ")")
           [] OTHER -> error_unexpected_token(p)

expr4(p) ==
    expr4_loop(expr5(p))

\* di_parse(source): the parser state block(&p, 1, 1) leaves, its e the tree
\* returned unless an error ended the process
di_parse(source, ms, me) ==
    block(create_parser(source, ms, me), 1, 1)

(***************************************************************************)
(* The annotator.  An annotator state a holds the nested scope (innermost  *)
(* scope first), the value e the last function returned, the error that    *)
(* ended the process (null while it runs), the warnings printed, and the   *)
(* order in which di_dict_iter hands out the keys of a dict.               *)
(*   scope        = {name: true | deps} (deps: the env of a function)      *)
(*   nested scope = [scope, ...]                                           *)
(***************************************************************************)
di_true ==
    [bool |-> TRUE]

\* the keys of a dict in the order di_dict_iter hands them out
DictKeys(dict, order) ==
    SelectSeq(order, LAMBDA k : k \in DOMAIN dict)

\* di_error with the text of error_expr_format: the location of e, then the
\* message
error_expr_format(e, text) ==
    [message |-> ToString(e.line) \o ":" \o ToString(e.column) \o ": " \o text]

\* the process aborted by a failed assert
Aborted(check) ==
    [abort |-> check]

\* lookup_nested_scope looking in the innermost scope only
lookup_nested_scope_Innermost(name, scopes) ==
    IF scopes = << >> THEN di_null ELSE di_dict_get(Head(scopes), name)

RECURSIVE lookup_nested_scope(_, _)
lookup_nested_scope(name, scopes) ==
    IF scopes = << >> THEN di_null
    ELSE IF ~di_is_null(di_dict_get(Head(scopes), name))
    THEN di_dict_get(Head(scopes), name)
    ELSE lookup_nested_scope(name, Tail(scopes))

\* setunion: the keys of b that a lacks are added to a with the value
\* "access"
setunion(a, b) ==
    IF di_is_null(a) THEN b
    ELSE IF di_is_null(b) THEN a
    ELSE [k \in DOMAIN a \cup DOMAIN b |-> IF k \in DOMAIN a THEN a[k] ELSE "access"]

\* the dict a with the keys of b left in
dict_diff_Nothing(a, b) ==
    a

\* dict_diff: the dict a minus the keys in b
dict_diff(a, b) ==
    IF di_is_null(a) THEN a ELSE [k \in DOMAIN a \ DOMAIN b |-> a[k]]

set_varset(e, varset) ==
    IF di_is_null(varset) THEN di_dict_delete(e, "varset")
    ELSE di_dict_set(e, "varset", varset)

\* get_varset of a dict
get_varset(e) ==
    di_dict_get(e, "varset")

RECURSIVE MergedVarset(_, _)
\* the loop of get_varset over the elements of an array
MergedVarset(es, merged) ==
    IF es = << >> THEN merged
    ELSE MergedVarset(Tail(es), setunion(merged, di_dict_get(Head(es), "varset")))

\* get_varset of an array
get_varset_array(es) ==
    MergedVarset(es, di_null)

\* the keys of a node that hold an array
ArrayKeys ==
    { "args", "elems", "entries", "clauses", "pats", "seq" }

\* get_varset of the child of a node under key
ChildVarset(node, key) ==
    IF key \in ArrayKeys THEN get_varset_array(node[key]) ELSE get_varset(node[key])

RECURSIVE UnionOf(_, _, _)
\* varset_union, varset_union3: the varsets of the children under keys,
\* merged from the left
UnionOf(node, keys, merged) ==
    IF keys = << >> THEN merged
    ELSE UnionOf(node, Tail(keys), setunion(merged, ChildVarset(node, Head(keys))))

\* the state r with the varset of the node it returned set to the union of
\* the varsets of its children under keys
UnionVarset(r, keys) ==
    IF Failed(r) THEN r ELSE Return(r, set_varset(r.e, UnionOf(r.e, keys, di_null)))

is_logicop(op) ==
    op \in { "and", "or", "not" }

is_relop(op) ==
    op \in { "<", ">", "=<", ">=", "==", "!=" }

\* strchr("+-*/", s[0]) != NULL || op = "mod", over the syntax of nodes
is_arithop(op) ==
    op \in { "+", "-", "*", "/", "mod" }

is_unop(op) ==
    op \in { "-", "not" }

is_operator(op) ==
    is_logicop(op) \/ is_relop(op) \/ is_arithop(op) \/ op \in { "~", "@" }

PushScope(a, scope) ==
    [a EXCEPT !.scopes = << scope >> \o @]

PopScope(a) ==
    [a EXCEPT !.scopes = Tail(@)]

RECURSIVE get_rec_accessed_varset(_, _, _, _, _)
RECURSIVE RecAccessedEach(_, _, _, _, _)
\* the loop of get_rec_accessed_varset over the keys of a function's deps;
\* acc is the error raised so far, or null and varset_acc
RecAccessedEach(keys, scopes, acc, orig_expr, order) ==
    IF keys = << >> THEN acc
    ELSE RecAccessedEach(Tail(keys), scopes,
             get_rec_accessed_varset(Head(keys), scopes, acc, orig_expr, order),
             orig_expr, order)

\* get_rec_accessed_varset once scope_value is looked up
RecAccessed(name, scope_value, scopes, acc, orig_expr, order) ==
    IF di_is_null(scope_value)
    THEN [acc EXCEPT !.error =
              error_expr_format(orig_expr, "Undefined variable " \o name)]
    ELSE IF scope_value # di_true
    THEN RecAccessedEach(DictKeys(scope_value, order), scopes,
             [acc EXCEPT !.varset = di_dict_set(@, name, "access")],
             orig_expr, order)
    ELSE [acc EXCEPT !.varset = di_dict_set(@, name, "access")]

get_rec_accessed_varset(name, scopes, acc, orig_expr, order) ==
    IF acc.error # di_null THEN acc
    ELSE IF di_dict_contains(acc.varset, name) THEN acc
    ELSE RecAccessed(name, lookup_nested_scope(name, scopes), scopes, acc,
                     orig_expr, order)

(***************************************************************************)
(* Marking the last accesses.  mark_last_access and mark_last_access_in_seq*)
(* return whether an access was found, the element or array with the last  *)
(* access marked, the error that ended the process, and the warnings       *)
(* printed.                                                                *)
(***************************************************************************)
Marking(found, e, err, out) ==
    [found |-> found, e |-> e, error |-> err, out |-> out]

RECURSIVE mark_last_access(_, _), mark_last_access_in_seq(_, _, _)

\* mark_last_access or mark_last_access_in_seq on the child of e under key
MarkChild(e, key, varname) ==
    IF key \in ArrayKeys THEN mark_last_access_in_seq(e[key], varname, Len(e[key]))
    ELSE mark_last_access(e[key], varname)

\* the element e with the marked child put back under key
MarkedChild(e, key, m) ==
    IF m.error # di_null THEN m
    ELSE Marking(TRUE, di_dict_set(e, key, m.e), di_null, m.out)

\* assert(mark_last_access(..)) on a child, m what the call returned
Asserted(e, key, m) ==
    IF m.error = di_null /\ ~m.found
    THEN Marking(FALSE, e, Aborted("assert(mark_last_access)"), << >>)
    ELSE MarkedChild(e, key, m)

\* the child under key must hold the last access; a missing left operand
\* fails assert(!di_is_null(left))
MarkAsserted(e, key, varname) ==
    IF ~di_dict_contains(e, key)
    THEN Marking(FALSE, e, Aborted("assert(!di_is_null(left))"), << >>)
    ELSE Asserted(e, key, MarkChild(e, key, varname))

\* the last access is looked for in the child under first, m what that call
\* returned, and when it is not there it must be in the child under second
MarkFirstOf(e, first, second, varname, m) ==
    IF m.error # di_null \/ m.found THEN MarkedChild(e, first, m)
    ELSE MarkAsserted(e, second, varname)

\* the var node of the variable itself: access becomes last, bind becomes
\* discard with the warning printed
MarkVar(e, varname) ==
    IF e.action = "access"
    THEN Marking(TRUE, [e EXCEPT !.action = "last"], di_null, << >>)
    ELSE IF e.action = "bind"
    THEN Marking(TRUE, [e EXCEPT !.action = "discard"], di_null,
                 << [warning |-> "Unused variable", line |-> e.line,
                     column |-> e.column, name |-> varname] >>)
    ELSE Marking(FALSE, e, Aborted("assert(0)"), << >>)

\* an if node whose else branch is left alone when the then branch holds
\* the last access
MarkIf_ThenFirst(e, varname, m_then, m_else) ==
    IF m_then.error # di_null THEN m_then
    ELSE IF m_then.found
    THEN Marking(TRUE, [e EXCEPT !["then"] = m_then.e], di_null, m_then.out)
    ELSE IF m_else.error # di_null THEN m_else
    ELSE IF ~m_else.found THEN MarkAsserted(e, "cond", varname)
    ELSE Marking(TRUE, [e EXCEPT !["else"] = m_else.e], di_null, m_else.out)

\* an if node: the last access is marked in both branches, and asserted to
\* be in the condition when it is in neither
MarkIf(e, varname, m_then, m_else) ==
    IF m_then.error # di_null THEN m_then
    ELSE IF m_else.error # di_null THEN m_else
    ELSE IF ~m_then.found /\ ~m_else.found THEN MarkAsserted(e, "cond", varname)
    ELSE Marking(TRUE, [e EXCEPT !["then"] = m_then.e, !["else"] = m_else.e],
                 di_null, m_then.out \o m_else.out)

mark_last_access(e, varname) ==
    IF di_is_null(get_varset(e)) \/ ~di_dict_contains(get_varset(e), varname)
    THEN Marking(FALSE, e, di_null, << >>)
    ELSE IF e.syntax = "var" /\ e.name.string = varname THEN MarkVar(e, varname)
    ELSE IF e.syntax = "regex" THEN Marking(TRUE, e, di_null, << >>)
    ELSE IF e.syntax = "="
    THEN MarkFirstOf(e, "left", "right", varname, MarkChild(e, "left", varname))
    ELSE IF is_operator(e.syntax)
    THEN MarkFirstOf(e, "right", "left", varname, MarkChild(e, "right", varname))
    ELSE IF e.syntax = "if"
    THEN MarkIf(e, varname, MarkChild(e, "then", varname),
                MarkChild(e, "else", varname))
    ELSE IF e.syntax = "case"
    THEN MarkFirstOf(e, "clauses", "subj", varname, MarkChild(e, "clauses", varname))
    ELSE IF e.syntax = "clause"
    THEN MarkFirstOf(e, "body", "pats", varname, MarkChild(e, "body", varname))
    ELSE IF e.syntax = "apply"
    THEN MarkFirstOf(e, "args", "func", varname, MarkChild(e, "args", varname))
    ELSE IF e.syntax = "array" THEN MarkAsserted(e, "elems", varname)
    ELSE IF e.syntax = "dict" THEN MarkAsserted(e, "entries", varname)
    ELSE IF e.syntax = "dictup"
    THEN MarkFirstOf(e, "entries", "subj", varname, MarkChild(e, "entries", varname))
    ELSE IF e.syntax = "entry"
    THEN MarkFirstOf(e, "value", "key", varname, MarkChild(e, "value", varname))
    ELSE IF e.syntax = "do" THEN MarkAsserted(e, "seq", varname)
    ELSE Marking(FALSE, e,
                 error_expr_format(e, "Can't annotate " \o e.syntax
                                      \o " as the last access of " \o varname \o "\n"),
                 << >>)

\* the element i of es marked, m what mark_last_access returned for it
MarkedInSeq(es, i, m) ==
    IF m.error # di_null THEN m
    ELSE IF ~m.found THEN Marking(FALSE, es, Aborted("assert(success)"), << >>)
    ELSE Marking(TRUE, [es EXCEPT ![i] = m.e], di_null, m.out)

\* mark_last_access_in_seq: the loop over the elements i, i - 1, .. 1
mark_last_access_in_seq(es, varname, i) ==
    IF i = 0 THEN Marking(FALSE, es, di_null, << >>)
    ELSE IF ~di_is_null(get_varset(es[i])) /\ di_dict_contains(get_varset(es[i]), varname)
    THEN MarkedInSeq(es, i, mark_last_access(es[i], varname))
    ELSE mark_last_access_in_seq(es, varname, i - 1)

\* the state r after a marking call with assert(found) returned m
Marked(r, m) ==
    IF m.error # di_null THEN Checked(r, m.error)
    ELSE IF ~m.found THEN Checked(r, Aborted("assert(found)"))
    ELSE [r EXCEPT !.e = m.e, !.out = @ \o m.out]

RECURSIVE MarkEach(_, _, _)
\* the loops of block and mark_last_accesses over the names of the scope
\* that closes: each is marked in the seq or the clause r returned
MarkEach(r, names, in_seq) ==
    IF Failed(r) \/ names = << >> THEN r
    ELSE MarkEach(Marked(r, IF in_seq
                            THEN mark_last_access_in_seq(r.e, Head(names), Len(r.e))
                            ELSE mark_last_access(r.e, Head(names))),
                  Tail(names), in_seq)

(***************************************************************************)
(* Expressions, patterns, clauses and blocks.                              *)
(***************************************************************************)
RECURSIVE annotate_expr(_, _), annotate_pattern(_, _), Annotate(_, _, _)

\* the node r returned, with its child under key put back annotated
Placed(node, key, rc) ==
    IF Failed(rc) THEN rc ELSE Return(rc, di_dict_set(node, key, rc.e))

\* the child under key of the node r returned is annotated as kind
Child(r, key, kind) ==
    IF Failed(r) THEN r ELSE Placed(r.e, key, Annotate(kind, r, r.e[key]))

RECURSIVE Each(_, _, _, _)
\* the loops of exprs, patterns, clauses, dict_entries and of block over its
\* seq: re the state after an element, rest the elements left, done those
\* annotated before it
EachNext(re, kind, rest, done) ==
    Each(re, kind, rest, Append(done, re.e))

Each(r, kind, es, done) ==
    IF Failed(r) THEN r
    ELSE IF es = << >> THEN Return(r, done)
    ELSE EachNext(Annotate(kind, r, Head(es)), kind, Tail(es), done)

\* the array under key of the node r returned, each element annotated as kind
Children(r, key, kind) ==
    IF Failed(r) THEN r ELSE Placed(r.e, key, Each(r, kind, r.e[key], << >>))

\* the var node e once get_rec_accessed_varset returned or raised acc
VarAccess(a, e, acc) ==
    IF acc.error # di_null THEN Checked(a, acc.error)
    ELSE Return(a, di_dict_set(di_dict_set(e, "action", "access"), "varset",
                               acc.varset))

annotate_expr(a, e) ==
    IF Failed(a) THEN a
    ELSE IF is_operator(e.syntax)
    THEN (IF di_dict_contains(e, "left")
          THEN UnionVarset(Child(Child(Return(a, e), "right", "expr"), "left", "expr"),
                           << "left", "right" >>)
          ELSE UnionVarset(Child(Return(a, e), "right", "expr"), << "right" >>))
    ELSE IF e.syntax = "apply"
    THEN UnionVarset(Children(Child(Return(a, e), "func", "expr"), "args", "expr"),
                     << "func", "args" >>)
    ELSE IF e.syntax = "case"
    THEN UnionVarset(Children(Child(Return(a, e), "subj", "expr"), "clauses", "clause"),
                     << "subj", "clauses" >>)
    ELSE IF e.syntax = "do" THEN Annotate("block", a, e)
    ELSE IF e.syntax = "if"
    THEN UnionVarset(Child(Child(Child(Return(a, e), "cond", "expr"), "then", "expr"),
                           "else", "expr"),
                     << "cond", "then", "else" >>)
    ELSE IF e.syntax = "array"
    THEN UnionVarset(Children(Return(a, e), "elems", "expr"), << "elems" >>)
    ELSE IF e.syntax = "dict"
    THEN UnionVarset(Children(Return(a, e), "entries", "entry of exprs"),
                     << "entries" >>)
    ELSE IF e.syntax = "dictup"
    THEN UnionVarset(Children(Child(Return(a, e), "subj", "expr"), "entries",
                              "entry of exprs"),
                     << "subj", "entries" >>)
    ELSE IF e.syntax = "var"
    THEN VarAccess(a, e, get_rec_accessed_varset(e.name.string, a.scopes,
                             [error |-> di_null, varset |-> di_dict_empty], e,
                             a.order))
    ELSE IF e.syntax = "lit" THEN Return(a, e)
    ELSE IF e.syntax = "regex"
    THEN Checked(a, error_expr_format(e,
                        "Regular expression can't be used in this context."))
    ELSE Checked(a, error_expr_format(e, "Unknown expression"))

\* the var pattern e once its name is looked up in the nested scope
PatternVar(a, e, scope_value) ==
    IF di_is_null(scope_value)
    THEN Return([a EXCEPT !.scopes[1] = di_dict_set(@, e.name.string, di_true)],
                di_dict_set(di_dict_set(e, "action", "bind"), "varset",
                            di_dict_set(di_dict_empty, e.name.string, "bind")))
    ELSE IF scope_value = di_true
    THEN Return(a, di_dict_set(di_dict_set(e, "action", "access"), "varset",
                               di_dict_set(di_dict_empty, e.name.string, "access")))
    ELSE Checked(a, error_expr_format(e,
                        "Pattern matching on functions not supported"))

annotate_pattern(a, e) ==
    IF Failed(a) THEN a
    ELSE IF e.syntax = "var"
    THEN (IF e.name.string = "_" THEN Return(a, e)
          ELSE PatternVar(a, e, lookup_nested_scope(e.name.string, a.scopes)))
    ELSE IF e.syntax \in { "lit", "regex" } THEN Return(a, e)
    ELSE IF e.syntax = "array"
    THEN UnionVarset(Children(Return(a, e), "elems", "pattern"), << "elems" >>)
    ELSE IF e.syntax = "dict"
    THEN UnionVarset(Children(Return(a, e), "entries", "entry of patterns"),
                     << "entries" >>)
    ELSE IF e.syntax = "dictup"
    THEN UnionVarset(Children(Child(Return(a, e), "subj", "pattern"), "entries",
                              "entry of patterns"),
                     << "subj", "entries" >>)
    ELSE IF e.syntax \in { "@", "~" }
    THEN UnionVarset(Child(Child(Return(a, e), "left", "pattern"), "right", "pattern"),
                     << "left", "right" >>)
    ELSE Checked(a, error_expr_format(e, "Invalid pattern " \o e.syntax))

\* the body of the loop of dict_entries: key, then value, each annotated by
\* pattern_or_expr
dict_entry(a, entry, pattern_or_expr) ==
    UnionVarset(Child(Child(Return(a, entry), "key", pattern_or_expr), "value",
                      pattern_or_expr),
                << "key", "value" >>)

expr_or_let(a, e) ==
    IF e.syntax = "="
    THEN UnionVarset(Child(Child(Return(a, e), "right", "expr"), "left", "pattern"),
                     << "left", "right" >>)
    ELSE annotate_expr(a, e)

\* the clause c with the names of its local scope taken out of its varset
ClauseVarset(rm, scope) ==
    IF Failed(rm) THEN rm
    ELSE Return(rm, set_varset(rm.e, dict_diff(get_varset(rm.e), scope)))

\* the local scope is popped and the last accesses of its names are marked
ClauseClosed(r) ==
    IF Failed(r) THEN r
    ELSE ClauseVarset(MarkEach(PopScope(r), DictKeys(Head(r.scopes), r.order), FALSE),
                      Head(r.scopes))

\* the body of the loop of clauses
clause(a, c) ==
    ClauseClosed(UnionVarset(Child(Children(PushScope(Return(a, c), di_dict_empty),
                                            "pats", "pattern"),
                                   "body", "expr"),
                             << "pats", "body" >>))

\* funcdef once its clauses are annotated
FuncEnv(def, rc) ==
    IF Failed(rc) THEN rc
    ELSE Return(rc, di_dict_set(di_dict_set(def, "clauses", rc.e), "env",
                                get_varset_array(rc.e)))

funcdef(a, def) ==
    FuncEnv(def, Each(a, "clause", def.clauses, << >>))

create_block_scope(defs) ==
    [name \in DOMAIN defs |-> di_true]

RECURSIVE BlockDefs(_, _, _)
\* the body of the loop of block over defs, rd the state after funcdef: the
\* function's entry in the local scope becomes its env
BlockDef(rd, defs, names) ==
    IF Failed(rd) THEN rd
    ELSE BlockDefs([rd EXCEPT !.scopes[1] =
                        di_dict_set(@, Head(names),
                                    IF di_is_null(rd.e.env) THEN di_dict_empty
                                    ELSE rd.e.env)],
                   di_dict_set(defs, Head(names), rd.e), Tail(names))

\* the loop of block over the names of defs still to do
BlockDefs(r, defs, names) ==
    IF Failed(r) THEN r
    ELSE IF names = << >> THEN Return(r, defs)
    ELSE BlockDef(funcdef(r, defs[Head(names)]), defs, names)

\* block once the last accesses are marked in seq: its varset is that of seq
\* minus the local scope
BlockVarset(blk, scope, rm) ==
    IF Failed(rm) THEN rm
    ELSE Return(rm, di_dict_set(set_varset(blk, dict_diff(get_varset_array(rm.e),
                                                          scope)),
                                "seq", rm.e))

\* block once seq is annotated: the scope is popped and the last accesses of
\* its names are marked in seq
BlockEnd(blk, rs) ==
    IF Failed(rs) THEN rs
    ELSE BlockVarset(blk, Head(rs.scopes),
                     MarkEach(PopScope(rs), DictKeys(Head(rs.scopes), rs.order), TRUE))

\* block once defs are annotated
BlockSeq(blk, rdefs) ==
    IF Failed(rdefs) THEN rdefs
    ELSE BlockEnd(di_dict_set(blk, "defs", rdefs.e),
                  Each(rdefs, "expr_or_let", blk.seq, << >>))

annotate_block(a, blk) ==
    BlockSeq(blk, BlockDefs(PushScope(a, create_block_scope(blk.defs)), blk.defs,
                            DictKeys(blk.defs, a.order)))

\* the annotating function for a kind of tree element
Annotate(kind, a, x) ==
    CASE kind = "expr" -> annotate_expr(a, x)
      [] kind = "pattern" -> annotate_pattern(a, x)
      [] kind = "block" -> annotate_block(a, x)
      [] kind = "clause" -> clause(a, x)
      [] kind = "expr_or_let" -> expr_or_let(a, x)
      [] kind = "entry of exprs" -> dict_entry(a, x, "expr")
      [] kind = "entry of patterns" -> dict_entry(a, x, "pattern")

\* di_annotate(ast) with the keys of dicts iterated in order: the state it
\* leaves, its e the annotated tree unless an error ended the process
di_annotate(ast, order) ==
    IF ast.syntax # "do"
    THEN [scopes |-> << >>, e |-> ast, out |-> << >>, order |-> order,
          error |-> [message |->
                       "Unexpected parse tree. A block is expected on top level."]]
    ELSE annotate_block([scopes |-> << >>, e |-> di_null, error |-> di_null,
                         out |-> << >>, order |-> order], ast)

(***************************************************************************)
(* The inputs of the parser runs.  A source is built from a few pieces, so *)
(* that what the parser was given is known apart from what it makes of it. *)
(* All sources are one line long; columns are counted from 1.              *)
(***************************************************************************)
MaxEntries == 3

\* An entry of a block: its text, the name and arity of the function it
\* defines ("" when it is no function definition), and the offset from
\* its first byte of the position its node gets ("(" for a clause and for a
\* call, the left operand for a "=").
DefinitionEntries ==
    {
      \* f(0) = 42
      [text |-> <<"f", "(", "0", ")", " ", "=", " ", "4", "2">>,
       name |-> "f", arity |-> 1, at |-> 1],
      \* f(n) = n - 1
      [text |-> <<"f", "(", "n", ")", " ", "=", " ", "n", " ", "-", " ", "1">>,
       name |-> "f", arity |-> 1, at |-> 1],
      \* f(x, y) = x
      [text |-> <<"f", "(", "x", ",", " ", "y", ")", " ", "=", " ", "x">>,
       name |-> "f", arity |-> 2, at |-> 1],
      \* g(x) = x
      [text |-> <<"g", "(", "x", ")", " ", "=", " ", "x">>,
       name |-> "g", arity |-> 1, at |-> 1],
      \* x = 1
      [text |-> <<"x", " ", "=", " ", "1">>,
       name |-> "", arity |-> 0, at |-> 0],
      \* f(1)
      [text |-> <<"f", "(", "1", ")">>,
       name |-> "", arity |-> 0, at |-> 1] }

\* An entry of a block that reads or binds variables: its text, the variable
\* it reads from the scope around it ("" for none) with the offset of that
\* var node, and the variable it binds in the block ("" for none).
ScopeEntries ==
    {
      \* z = 1
      [text |-> <<"z", " ", "=", " ", "1">>,
       reads |-> "", at |-> 0, binds |-> "z"],
      \* x = z
      [text |-> <<"x", " ", "=", " ", "z">>,
       reads |-> "z", at |-> 4, binds |-> "x"],
      \* x
      [text |-> <<"x">>,
       reads |-> "x", at |-> 0, binds |-> ""],
      \* z
      [text |-> <<"z">>,
       reads |-> "z", at |-> 0, binds |-> ""],
      \* do x = z ; x end
      [text |-> <<"d", "o", " ", "x", " ", "=", " ", "z", " ", ";", " ", "x",
                  " ", "e", "n", "d">>,
       reads |-> "z", at |-> 7, binds |-> ""] }

\* the binary operators of the grammar with their precedence level, 0 the
\* lowest
BinaryOperators ==
    {
      [op |-> "and", text |-> <<"a", "n", "d">>, level |-> 0],
      [op |-> "or", text |-> <<"o", "r">>, level |-> 0],
      [op |-> "<", text |-> <<"<">>, level |-> 1],
      [op |-> ">", text |-> <<">">>, level |-> 1],
      [op |-> "=<", text |-> <<"=", "<">>, level |-> 1],
      [op |-> ">=", text |-> <<">", "=">>, level |-> 1],
      [op |-> "==", text |-> <<"=", "=">>, level |-> 1],
      [op |-> "!=", text |-> <<"!", "=">>, level |-> 1],
      [op |-> "+", text |-> <<"+">>, level |-> 2],
      [op |-> "-", text |-> <<"-">>, level |-> 2],
      [op |-> "~", text |-> <<"~">>, level |-> 2],
      [op |-> "@", text |-> <<"@">>, level |-> 2],
      [op |-> "*", text |-> <<"*">>, level |-> 3],
      [op |-> "/", text |-> <<"/">>, level |-> 3],
      [op |-> "div", text |-> <<"d", "i", "v">>, level |-> 3],
      [op |-> "mod", text |-> <<"m", "o", "d">>, level |-> 3] }

\* the operators the lexer has a token for
LexedOperators ==
    { o \in BinaryOperators : o.op \notin { "=<", "div" } }

\* "=" as the operator after a unary operand
Assignment ==
    [op |-> "=", text |-> <<"=">>]

UnaryOperators ==
    { [op |-> "-", text |-> <<"-">>], [op |-> "not", text |-> <<"n", "o", "t">>] }

\* entries with a node that its position does not allow below the outermost
\* node, each closed by the end of the top-level block
MisplacedSources ==
    {
      \* x + (y = 1) end
      <<"x", " ", "+", " ", "(", "y", " ", "=", " ", "1", ")", " ", "e", "n",
        "d">>,
      \* [/a/] end
      <<"[", "/", "a", "/", "]", " ", "e", "n", "d">>,
      \* f(y = 1) end
      <<"f", "(", "y", " ", "=", " ", "1", ")", " ", "e", "n", "d">>,
      \* {k: /a/} end
      <<"{", "k", ":", " ", "/", "a", "/", "}", " ", "e", "n", "d">>,
      \* d{k: (y = 1)} end
      <<"d", "{", "k", ":", " ", "(", "y", " ", "=", " ", "1", ")", "}", " ",
        "e", "n", "d">>,
      \* [f(x)] = 1 end
      <<"[", "f", "(", "x", ")", "]", " ", "=", " ", "1", " ", "e", "n", "d">>,
      \* f([a + b]) = 1 end
      <<"f", "(", "[", "a", " ", "+", " ", "b", "]", ")", " ", "=", " ", "1",
        " ", "e", "n", "d">>,
      \* (a ~ (b + c)) = 1 end
      <<"(", "a", " ", "~", " ", "(", "b", " ", "+", " ", "c", ")", ")", " ", "=",
        " ", "1", " ", "e", "n", "d">> }

\* the closure scenario of the specification: do y = 42 ; f(x) = x + y ; f(1) end
ClosureScenario ==
    <<"d", "o", " ", "y", " ", "=", " ", "4", "2", " ", ";", " ", "f", "(",
      "x", ")", " ", "=", " ", "x", " ", "+", " ", "y", " ", ";", " ", "f",
      "(", "1", ")", " ", "e", "n", "d">>

\* what the case pattern scenario has before the pattern: case x of (
PatternPrefix ==
    <<"c", "a", "s", "e", " ", "x", " ", "o", "f", " ", "(">>

\* the first operands of the case pattern scenario
LeftOperands ==
    { <<"a">>, <<"a", "b">> }

\* sources in which a variable of the block is read in the branches of an if
\* or in the clauses of a case
BranchSources ==
    {
      \* c = 1 ; x = 1 ; if c then x else x end
      <<"c", " ", "=", " ", "1", " ", ";", " ", "x", " ", "=", " ", "1", " ",
        ";", " ", "i", "f", " ", "c", " ", "t", "h", "e", "n", " ", "x", " ",
        "e", "l", "s", "e", " ", "x", " ", "e", "n", "d">>,
      \* c = 1 ; x = 1 ; if c then x else 0 end
      <<"c", " ", "=", " ", "1", " ", ";", " ", "x", " ", "=", " ", "1", " ",
        ";", " ", "i", "f", " ", "c", " ", "t", "h", "e", "n", " ", "x", " ",
        "e", "l", "s", "e", " ", "0", " ", "e", "n", "d">>,
      \* c = 1 ; x = 1 ; if c then 0 else x end
      <<"c", " ", "=", " ", "1", " ", ";", " ", "x", " ", "=", " ", "1", " ",
        ";", " ", "i", "f", " ", "c", " ", "t", "h", "e", "n", " ", "0", " ",
        "e", "l", "s", "e", " ", "x", " ", "e", "n", "d">>,
      \* c = 1 ; x = 1 ; if c then x else 0 ; x end
      <<"c", " ", "=", " ", "1", " ", ";", " ", "x", " ", "=", " ", "1", " ",
        ";", " ", "i", "f", " ", "c", " ", "t", "h", "e", "n", " ", "x", " ",
        "e", "l", "s", "e", " ", "0", " ", ";", " ", "x", " ", "e", "n", "d">>,
      \* c = 1 ; x = 1 ; if c then if c then x else x else x end
      <<"c", " ", "=", " ", "1", " ", ";", " ", "x", " ", "=", " ", "1", " ",
        ";", " ", "i", "f", " ", "c", " ", "t", "h", "e", "n", " ", "i", "f",
        " ", "c", " ", "t", "h", "e", "n", " ", "x", " ", "e", "l", "s", "e",
        " ", "x", " ", "e", "l", "s", "e", " ", "x", " ", "e", "n", "d">>,
      \* c = 1 ; x = 1 ; case c of 1 -> x ; 2 -> 0 end end
      <<"c", " ", "=", " ", "1", " ", ";", " ", "x", " ", "=", " ", "1", " ",
        ";", " ", "c", "a", "s", "e", " ", "c", " ", "o", "f", " ", "1", " ",
        "-", ">", " ", "x", " ", ";", " ", "2", " ", "-", ">", " ", "0", " ",
        "e", "n", "d", " ", "e", "n", "d">>,
      \* c = 1 ; x = 1 ; case c of 1 -> x ; 2 -> x end end
      <<"c", " ", "=", " ", "1", " ", ";", " ", "x", " ", "=", " ", "1", " ",
        ";", " ", "c", "a", "s", "e", " ", "c", " ", "o", "f", " ", "1", " ",
        "-", ">", " ", "x", " ", ";", " ", "2", " ", "-", ">", " ", "x", " ",
        "e", "n", "d", " ", "e", "n", "d">> }

\* sources whose functions are called before they are defined, call
\* themselves or call each other
FunctionSources ==
    {
      \* f(1) ; f(x) = x end
      <<"f", "(", "1", ")", " ", ";", " ", "f", "(", "x", ")", " ", "=", " ",
        "x", " ", "e", "n", "d">>,
      \* f(x) = f(x) ; f(1) end
      <<"f", "(", "x", ")", " ", "=", " ", "f", "(", "x", ")", " ", ";", " ",
        "f", "(", "1", ")", " ", "e", "n", "d">>,
      \* f(1) ; g(1) ; f(x) = g(x) ; g(x) = x end
      <<"f", "(", "1", ")", " ", ";", " ", "g", "(", "1", ")", " ", ";", " ",
        "f", "(", "x", ")", " ", "=", " ", "g", "(", "x", ")", " ", ";", " ",
        "g", "(", "x", ")", " ", "=", " ", "x", " ", "e", "n", "d">>,
      \* f(x) = x ; g(x) = f(x) ; g(1) end
      <<"f", "(", "x", ")", " ", "=", " ", "x", " ", ";", " ", "g", "(", "x",
        ")", " ", "=", " ", "f", "(", "x", ")", " ", ";", " ", "g", "(", "1",
        ")", " ", "e", "n", "d">>,
      \* f(x) = g(x) ; g(x) = f(x) ; f(1) end
      <<"f", "(", "x", ")", " ", "=", " ", "g", "(", "x", ")", " ", ";", " ",
        "g", "(", "x", ")", " ", "=", " ", "f", "(", "x", ")", " ", ";", " ",
        "f", "(", "1", ")", " ", "e", "n", "d">> }

\* sources with variables that are not read, are read once, are bound twice
\* in a pattern or are read by a function of an inner block
ScopeSources ==
    {
      \* x = 1 end
      <<"x", " ", "=", " ", "1", " ", "e", "n", "d">>,
      \* f(x) = 1 ; f(2) end
      <<"f", "(", "x", ")", " ", "=", " ", "1", " ", ";", " ", "f", "(", "2",
        ")", " ", "e", "n", "d">>,
      \* x = 1 ; f(y) = y ; f(x) end
      <<"x", " ", "=", " ", "1", " ", ";", " ", "f", "(", "y", ")", " ", "=",
        " ", "y", " ", ";", " ", "f", "(", "x", ")", " ", "e", "n", "d">>,
      \* x = 1 ; case x of y -> y end end
      <<"x", " ", "=", " ", "1", " ", ";", " ", "c", "a", "s", "e", " ", "x",
        " ", "o", "f", " ", "y", " ", "-", ">", " ", "y", " ", "e", "n", "d",
        " ", "e", "n", "d">>,
      \* [x, x] = 1 ; x end
      <<"[", "x", ",", " ", "x", "]", " ", "=", " ", "1", " ", ";", " ", "x",
        " ", "e", "n", "d">>,
      \* f(x) = x end
      <<"f", "(", "x", ")", " ", "=", " ", "x", " ", "e", "n", "d">>,
      \* y = 1 ; do f(x) = y ; f(1) end end
      <<"y", " ", "=", " ", "1", " ", ";", " ", "d", "o", " ", "f", "(", "x",
        ")", " ", "=", " ", "y", " ", ";", " ", "f", "(", "1", ")", " ", "e",
        "n", "d", " ", "e", "n", "d">>,
      \* y = 1 ; do f(x) = y ; f(1) end ; y end
      <<"y", " ", "=", " ", "1", " ", ";", " ", "d", "o", " ", "f", "(", "x",
        ")", " ", "=", " ", "y", " ", ";", " ", "f", "(", "1", ")", " ", "e",
        "n", "d", " ", ";", " ", "y", " ", "e", "n", "d">> }

\* sources with the name of a function of the block in pattern position: as
\* a parameter of another function, as a case pattern and left of a "="
FunctionPatternSources ==
    {
      \* f(g) = 1 ; g(x) = x ; f(1) ; g(1) end
      <<"f", "(", "g", ")", " ", "=", " ", "1", " ", ";", " ", "g", "(", "x",
        ")", " ", "=", " ", "x", " ", ";", " ", "f", "(", "1", ")", " ", ";",
        " ", "g", "(", "1", ")", " ", "e", "n", "d">>,
      \* g(x) = x ; case 1 of g -> 0 end ; g(1) end
      <<"g", "(", "x", ")", " ", "=", " ", "x", " ", ";", " ", "c", "a", "s",
        "e", " ", "1", " ", "o", "f", " ", "g", " ", "-", ">", " ", "0", " ",
        "e", "n", "d", " ", ";", " ", "g", "(", "1", ")", " ", "e", "n", "d">>,
      \* g(x) = x ; g = 1 ; g(1) end
      <<"g", "(", "x", ")", " ", "=", " ", "x", " ", ";", " ", "g", " ", "=",
        " ", "1", " ", ";", " ", "g", "(", "1", ")", " ", "e", "n", "d">> }

AnnotationSources ==
    BranchSources \cup FunctionSources \cup ScopeSources \cup FunctionPatternSources

\* the names bound by the trees handed to di_annotate as they are
BindingNames ==
    { <<"x">>, <<"_">>, <<"_", "x">>, <<"_", "t", "m", "p">> }

\* the var node of a name at a column of line 1
VarNode(name, column) ==
    [line |-> 1, column |-> column, syntax |-> "var", name |-> [string |-> Text(name)]]

\* the tree of name = 1, followed by ; name when the name is read: what
\* di_parse returns for a name the lexer has a token for
TreeOf(in) ==
    [syntax |-> "do", line |-> 1, column |-> 1, defs |-> di_dict_empty,
     seq |-> << [syntax |-> "=", line |-> 1, column |-> 1,
                 left |-> VarNode(in.name, 1),
                 right |-> [syntax |-> "lit", line |-> 1,
                            column |-> Len(in.name) + 4, value |-> [int |-> 1]]] >>
                \o (IF in.read THEN << VarNode(in.name, Len(in.name) + 8) >>
                    ELSE << >>)]

BlockInputs(entries) ==
    { [kind |-> "block", entries |-> es, closed |-> c] :
        es \in UNION { [1..n -> entries] : n \in 1..MaxEntries }, c \in BOOLEAN }

ParseInputs ==
    BlockInputs(DefinitionEntries) \cup BlockInputs(ScopeEntries)
        \cup { [kind |-> "binary", op1 |-> o1, op2 |-> o2] :
                 o1 \in BinaryOperators, o2 \in BinaryOperators }
        \cup { [kind |-> "unary", unop |-> u, op |-> o] :
                 u \in UnaryOperators, o \in LexedOperators \cup { Assignment } }
        \cup { [kind |-> "pattern", left |-> l, op |-> o] :
                 l \in LeftOperands, o \in LexedOperators }
        \cup { [kind |-> "text", text |-> s] : s \in MisplacedSources }
        \cup { [kind |-> "closure", closed |-> c] : c \in BOOLEAN }
        \cup { [kind |-> "annotation", text |-> s] : s \in AnnotationSources }
        \cup { [kind |-> "tree", name |-> n, read |-> r] :
                 n \in BindingNames, r \in BOOLEAN }

Spaced(parts) ==
    Join(parts, <<" ">>)

RECURSIVE Texts(_)
\* the texts of a sequence of entries
Texts(es) ==
    IF es = << >> THEN << >> ELSE << Head(es).text >> \o Texts(Tail(es))

\* the source built from an input
SourceOf(in) ==
    CASE in.kind = "block" ->
           Join(Texts(in.entries), <<" ", ";", " ">>)
             \o (IF in.closed THEN <<" ", "e", "n", "d">> ELSE << >>)
      [] in.kind = "binary" ->
           \* a op1 b op2 c end
           Spaced(<< <<"a">>, in.op1.text, <<"b">>, in.op2.text, <<"c">>,
                     <<"e", "n", "d">> >>)
      [] in.kind = "unary" ->
           \* unop a op b end
           Spaced(<< in.unop.text, <<"a">>, in.op.text, <<"b">>, <<"e", "n", "d">> >>)
      [] in.kind = "pattern" ->
           \* case x of (left op b) -> 0 end
           PatternPrefix \o in.left \o <<" ">> \o in.op.text
             \o <<" ", "b", ")", " ", "-", ">", " ", "0", " ", "e", "n", "d">>
      [] in.kind \in { "text", "annotation" } -> in.text
      [] in.kind = "tree" ->
           \* name = 1 end, name = 1 ; name end
           in.name \o <<" ", "=", " ", "1">>
             \o (IF in.read THEN <<" ", ";", " ">> \o in.name ELSE << >>)
             \o <<" ", "e", "n", "d">>
      [] in.kind = "closure" ->
           ClosureScenario \o (IF in.closed THEN <<" ", "e", "n", "d">> ELSE << >>)

\* the names of the sources, in one of the orders a dict may iterate them
KeyOrder ==
    <<"f", "g", "x", "y", "z", "n", "a", "b", "c", "d", "k", "ab", "_x", "_tmp">>

RECURSIVE Reverse(_)
Reverse(s) ==
    IF s = << >> THEN << >> ELSE Reverse(Tail(s)) \o << Head(s) >>

\* di_dict_iter follows the slots of a hash table: the order of the keys is
\* not specified
KeyOrders ==
    { KeyOrder, Reverse(KeyOrder) }

(***************************************************************************)
(* The parser runs: di_parse on the source, then di_annotate on the tree.  *)
(* A run on a tree input starts at di_annotate, with the tree as a caller  *)
(* of di_annotate hands it over.                                           *)
(***************************************************************************)
InitParse ==
    /\ input \in ParseInputs
    /\ lexer = di_lexer_create(SourceOf(input))
    /\ token = di_null
    /\ status = IF input.kind = "tree" THEN "parsed" ELSE "source"
    /\ old_lexer = lexer
    /\ old_token = di_null
    /\ inserted = FALSE
    /\ pushes = 0
    /\ closers = 0
    /\ stream = << >>
    /\ tree = IF input.kind = "tree" THEN TreeOf(input) ELSE di_null
    /\ annotated = di_null
    /\ failure = di_null
    /\ printed = << >>
    /\ heap = << >>
    /\ array = 0
    /\ holders = << >>
    /\ written = di_null

\* the run after di_parse left the parser state p
Parsed(p) ==
    /\ status' = IF Failed(p) THEN "rejected" ELSE "parsed"
    /\ tree' = IF Failed(p) THEN di_null ELSE p.e
    /\ failure' = p.error
    /\ UNCHANGED <<lexer, token, old_lexer, old_token, inserted, pushes, closers,
                   stream, input, annotated, printed>>
    /\ UNCHANGED arrays

parse ==
    /\ status = "source"
    /\ \E ms \in Uninitialized, me \in Uninitialized :
          Parsed(di_parse(lexer.source, ms, me))

\* the run after di_annotate left the annotator state a
Annotated(a) ==
    /\ status' = IF Failed(a) THEN "stopped" ELSE "annotated"
    /\ annotated' = IF Failed(a) THEN di_null ELSE a.e
    /\ failure' = a.error
    /\ printed' = a.out
    /\ UNCHANGED <<lexer, token, old_lexer, old_token, inserted, pushes, closers,
                   stream, input, tree>>
    /\ UNCHANGED arrays

annotate ==
    /\ status = "parsed"
    /\ \E order \in KeyOrders : Annotated(di_annotate(tree, order))

NextParse ==
    parse \/ annotate

\* di_parse and di_annotate run over the parser inputs
SpecParse ==
    InitParse /\ [][NextParse]_vars

(***************************************************************************)
(* What the claims say of the parser runs, read from the input the source  *)
(* was built from.                                                         *)
(***************************************************************************)
RECURSIVE EntryStart(_, _)
\* the column of the first byte of entry i of a block input
EntryStart(es, i) ==
    IF i = 1 THEN 1 ELSE EntryStart(es, i - 1) + Len(es[i - 1].text) + 3

\* the columns of a sequence of nodes
Columns(nodes) ==
    [i \in 1..Len(nodes) |-> nodes[i].column]

\* the columns of the nodes of the entries that define name, in source
\* order; the name "" selects the entries that define no function
EntryColumns(es, name) ==
    LET idx == SelectSeq([i \in 1..Len(es) |-> i], LAMBDA i : es[i].name = name)
    IN  [k \in 1..Len(idx) |-> EntryStart(es, idx[k]) + es[idx[k]].at]

\* the clauses that differ in arity from an earlier clause of their name
Mismatches(es) ==
    { j \in DOMAIN es :
        /\ es[j].name # ""
        /\ \E i \in 1..(j - 1) : es[i].name = es[j].name /\ es[i].arity # es[j].arity }

\* the first of a non-empty set of indexes
First(indexes) ==
    CHOOSE j \in indexes : \A k \in indexes : j <= k

DefinitionInput ==
    input.kind = "block" /\ input.entries[1] \in DefinitionEntries

ScopeInput ==
    input.kind = "block" /\ input.entries[1] \in ScopeEntries

(***************************************************************************)
(* C12.  In a parsed block the entries name(args) = body are taken out of  *)
(* seq and appended as clauses, in source order, to the one defs entry of  *)
(* their name, which holds the name and the arity; the other entries stay  *)
(* in seq in source order.                                                 *)
(***************************************************************************)
C12_DefsLifted ==
    (DefinitionInput /\ tree # di_null) =>
        /\ tree.syntax = "do"
        /\ Columns(tree.seq) = EntryColumns(input.entries, "")
        /\ \A i \in DOMAIN tree.seq : tree.seq[i].syntax \in { "=", "apply" }
        /\ DOMAIN tree.defs
             = { input.entries[i].name : i \in DOMAIN input.entries } \ { "" }
        /\ \A i \in DOMAIN input.entries :
              input.entries[i].name # "" =>
                 /\ tree.defs[input.entries[i].name].name
                       = [string |-> input.entries[i].name]
                 /\ tree.defs[input.entries[i].name].arity = input.entries[i].arity
                 /\ Columns(tree.defs[input.entries[i].name].clauses)
                       = EntryColumns(input.entries, input.entries[i].name)
                 /\ \A k \in DOMAIN tree.defs[input.entries[i].name].clauses :
                       /\ tree.defs[input.entries[i].name].clauses[k].syntax = "clause"
                       /\ Len(tree.defs[input.entries[i].name].clauses[k].pats)
                             = input.entries[i].arity
                       /\ "body" \in DOMAIN tree.defs[input.entries[i].name].clauses[k]

\* two clauses of f with another entry between them have been parsed
C12_Witness ==
    /\ DefinitionInput /\ tree # di_null
    /\ Len(input.entries) = 3
    /\ input.entries[1].name = "f"
    /\ input.entries[2].name = ""
    /\ input.entries[3].name = "f"
    /\ Len(tree.seq) = 1

(***************************************************************************)
(* C13.  In a parsed tree every clause of a defs entry has as many         *)
(* patterns as the arity of the entry; a clause whose number of parameters *)
(* differs from the earlier clauses of its name ends the parse with        *)
(* 'Arity mismatches previous clauses.'.                                   *)
(***************************************************************************)
\* the clauses of the defs of a do node agree with the arity of their entry
AritiesAgree(blk) ==
    \A n \in DOMAIN blk.defs :
        \A k \in DOMAIN blk.defs[n].clauses :
            Len(blk.defs[n].clauses[k].pats) = blk.defs[n].arity

C13_ArityShared ==
    /\ tree # di_null =>
          /\ AritiesAgree(tree)
          /\ \A i \in DOMAIN tree.seq :
                tree.seq[i].syntax = "do" => AritiesAgree(tree.seq[i])
    /\ (DefinitionInput /\ Mismatches(input.entries) # {} /\ status # "source") =>
          /\ status = "rejected"
          /\ failure =
                [message |-> "Arity mismatches previous clauses.", line |-> 1,
                 column |-> EntryStart(input.entries, First(Mismatches(input.entries)))
                              + input.entries[First(Mismatches(input.entries))].at]

\* a clause of another arity than the first clause of f has been rejected
C13_Witness ==
    /\ DefinitionInput /\ status = "rejected"
    /\ Mismatches(input.entries) # {}
    /\ failure.message = "Arity mismatches previous clauses."

(***************************************************************************)
(* C14.  In a parsed tree no node at any depth in expression position is a *)
(* "=" or a regex, and no node at any depth in pattern position is one of  *)
(* the syntaxes a pattern may not have.                                    *)
(***************************************************************************)
\* the syntaxes the claim excludes from patterns
PatternExcluded ==
    { "do", "if", "case", "apply", "and", "or", "not", "<", ">", "=<", ">=",
      "==", "!=", "+", "-", "*", "/", "div", "mod" }

RECURSIVE Misplaced(_, _), MisplacedInBlock(_)
\* a node below e has a syntax its position excludes; pattern tells the
\* position of e
MisplacedBelow(e, pattern) ==
    CASE e.syntax \in { "var", "lit", "regex" } -> FALSE
      [] e.syntax = "array" ->
           \E i \in DOMAIN e.elems : Misplaced(e.elems[i], pattern)
      [] e.syntax = "dict" ->
           \E i \in DOMAIN e.entries :
               Misplaced(e.entries[i].key, pattern)
                   \/ Misplaced(e.entries[i].value, pattern)
      [] e.syntax = "dictup" ->
           \/ Misplaced(e.subj, pattern)
           \/ \E i \in DOMAIN e.entries :
                  Misplaced(e.entries[i].key, pattern)
                      \/ Misplaced(e.entries[i].value, pattern)
      [] e.syntax = "apply" ->
           \/ Misplaced(e.func, pattern)
           \/ \E i \in DOMAIN e.args : Misplaced(e.args[i], pattern)
      [] e.syntax = "if" ->
           Misplaced(e.cond, FALSE) \/ Misplaced(e.then, FALSE)
               \/ Misplaced(e.else, FALSE)
      [] e.syntax = "case" ->
           \/ Misplaced(e.subj, FALSE)
           \/ \E k \in DOMAIN e.clauses :
                  \/ \E j \in DOMAIN e.clauses[k].pats :
                         Misplaced(e.clauses[k].pats[j], TRUE)
                  \/ Misplaced(e.clauses[k].body, FALSE)
      [] e.syntax = "do" -> MisplacedInBlock(e)
      [] OTHER ->
           \/ "left" \in DOMAIN e /\ Misplaced(e.left, pattern)
           \/ Misplaced(e.right, pattern)

\* e or a node below it has a syntax its position excludes
Misplaced(e, pattern) ==
    \/ IF pattern THEN e.syntax \in PatternExcluded
       ELSE e.syntax \in { "=", "regex" }
    \/ MisplacedBelow(e, pattern)

\* the same for the entries and the definitions of a do node: the outermost
\* "=" of an entry has a pattern to its left and an expression to its right
MisplacedInBlock(blk) ==
    \/ \E i \in DOMAIN blk.seq :
           IF blk.seq[i].syntax = "="
           THEN Misplaced(blk.seq[i].left, TRUE) \/ Misplaced(blk.seq[i].right, FALSE)
           ELSE Misplaced(blk.seq[i], FALSE)
    \/ \E n \in DOMAIN blk.defs :
           \E k \in DOMAIN blk.defs[n].clauses :
               \/ \E j \in DOMAIN blk.defs[n].clauses[k].pats :
                      Misplaced(blk.defs[n].clauses[k].pats[j], TRUE)
               \/ Misplaced(blk.defs[n].clauses[k].body, FALSE)

C14_NothingMisplaced ==
    tree # di_null => ~MisplacedInBlock(tree)

(***************************************************************************)
(* C15.  A case pattern whose outermost node is a binary operator that a   *)
(* pattern may not have ends the parse with 'Unexpected <op> in pattern    *)
(* context.'.  The claim has it reported at the operator token; the parser *)
(* reports it at the left operand, whose position the binary node takes.   *)
(***************************************************************************)
\* the parse of the case pattern scenario was ended at this column with the
\* error of the pattern
PatternRejected(column) ==
    /\ status = "rejected"
    /\ failure = [message |-> "Unexpected " \o input.op.op \o " in pattern context.",
                  line |-> 1, column |-> column]

ExcludedPatternInput ==
    input.kind = "pattern" /\ input.op.op \in PatternExcluded

\* the claim as stated: reported at the operator token
C15_AtOperator ==
    (ExcludedPatternInput /\ status # "source") =>
        PatternRejected(Len(PatternPrefix) + Len(input.left) + 2)

\* reported at the left operand
C15_AtLeftOperand ==
    (ExcludedPatternInput /\ status # "source") =>
        PatternRejected(Len(PatternPrefix) + 1)

\* case x of (a + b) -> 0 end has been rejected
C15_Witness ==
    /\ input.kind = "pattern" /\ input.op.op = "+" /\ input.left = <<"a">>
    /\ status = "rejected"
    /\ failure.message = "Unexpected + in pattern context."

(***************************************************************************)
(* C16.  a op1 b op2 c parses as ((a op1 b) op2 c) when op2 is of the      *)
(* level of op1 or of a lower level, and as (a op1 (b op2 c)) when op2 is  *)
(* of a higher level, for the operators of the four levels of the grammar. *)
(***************************************************************************)
VarNamed(e, name) ==
    e.syntax = "var" /\ e.name = [string |-> name]

\* e is the binary node of op
Binary(e, op) ==
    e.syntax = op /\ "left" \in DOMAIN e

\* ((a op1 b) op2 c)
LeftGrouped(e, op1, op2) ==
    /\ Binary(e, op2) /\ Binary(e.left, op1)
    /\ VarNamed(e.left.left, "a") /\ VarNamed(e.left.right, "b")
    /\ VarNamed(e.right, "c")

\* (a op1 (b op2 c))
RightGrouped(e, op1, op2) ==
    /\ Binary(e, op1) /\ Binary(e.right, op2)
    /\ VarNamed(e.left, "a") /\ VarNamed(e.right.left, "b")
    /\ VarNamed(e.right.right, "c")

C16_Precedence ==
    (input.kind = "binary" /\ status # "source") =>
        /\ tree # di_null
        /\ Len(tree.seq) = 1
        /\ IF input.op1.level >= input.op2.level
           THEN LeftGrouped(tree.seq[1], input.op1.op, input.op2.op)
           ELSE RightGrouped(tree.seq[1], input.op1.op, input.op2.op)

(***************************************************************************)
(* C17.  The operand of a unary - or not is a single expression of the     *)
(* prefix level: unop a op b parses as ((unop a) op b), and a "=" that     *)
(* follows is not taken into the operand.                                  *)
(***************************************************************************)
\* e is the unary node of op
Unary(e, op) ==
    e.syntax = op /\ "left" \notin DOMAIN e

C17_UnaryBindsTightest ==
    (input.kind = "unary" /\ tree # di_null) =>
        /\ ~(Unary(tree.seq[1], input.unop.op) /\ Binary(tree.seq[1].right, input.op.op))
        /\ input.op.op # "=" =>
              /\ Binary(tree.seq[1], input.op.op)
              /\ Unary(tree.seq[1].left, input.unop.op)
              /\ VarNamed(tree.seq[1].left.right, "a")
              /\ VarNamed(tree.seq[1].right, "b")

(***************************************************************************)
(* C18.  The end of the input ends the top-level block: a source of        *)
(* entries with no end after them parses to the top-level do node.         *)
(***************************************************************************)
C18_EofEndsBlock ==
    (DefinitionInput /\ ~input.closed /\ Mismatches(input.entries) = {}
         /\ status # "source") =>
        /\ tree # di_null
        /\ tree.syntax = "do"
        /\ Columns(tree.seq) = EntryColumns(input.entries, "")

(***************************************************************************)
(* C19.  A var in expression position is looked up in the scopes around    *)
(* it, innermost first, as they stand when it is annotated: the annotation *)
(* of a block ends with 'Undefined variable <name>' at the first var read  *)
(* that no entry before it has bound, and goes through when there is none. *)
(***************************************************************************)
\* the entries of a block input that read a variable no earlier entry binds
Unbound(es) ==
    { i \in DOMAIN es :
        /\ es[i].reads # ""
        /\ \A j \in 1..(i - 1) : es[j].binds # es[i].reads }

C19_UndefinedVariable ==
    (ScopeInput /\ input.closed /\ status \in { "annotated", "stopped" }) =>
        IF Unbound(input.entries) = {}
        THEN status = "annotated"
        ELSE /\ status = "stopped"
             /\ failure =
                   [message |->
                       "1:"
                         \o ToString(EntryStart(input.entries,
                                                First(Unbound(input.entries)))
                                       + input.entries[First(Unbound(input.entries))].at)
                         \o ": Undefined variable "
                         \o input.entries[First(Unbound(input.entries))].reads]

\* the annotation of do x = z ; x end has stopped at the z
C19_Witness ==
    /\ ScopeInput /\ input.closed /\ status = "stopped"
    /\ Len(input.entries) = 1
    /\ input.entries[1].reads = "z" /\ input.entries[1].at = 7
    /\ failure = [message |-> "1:8: Undefined variable z"]

(***************************************************************************)
(* C20.  In do y = 42 ; f(x) = x + y ; f(1) end the annotation goes        *)
(* through, the env of f is y -> last, the y in the body of f is tagged    *)
(* last and the y that is bound stays tagged bind.                         *)
(***************************************************************************)
C20_ClosureEnv ==
    (input.kind = "closure" /\ input.closed /\ status \in { "annotated", "stopped" }) =>
        /\ status = "annotated"
        /\ annotated.seq[1].defs["f"].env = [y |-> "last"]
        /\ annotated.seq[1].defs["f"].clauses[1].body.right.action = "last"
        /\ annotated.seq[1].seq[1].left.action = "bind"

(***************************************************************************)
(* C29.  In every lexer state the columns of the layout frames increase    *)
(* strictly from the outermost frame to the innermost: a call pushes a     *)
(* frame only on an empty stack or at a column to the right of the         *)
(* innermost frame's.                                                      *)
(***************************************************************************)
C29_FramesIncrease ==
    /\ \A i \in 1..(Len(lexer.layout) - 1) :
          lexer.layout[i].column < lexer.layout[i + 1].column
    /\ (Called /\ Len(lexer.layout) > Len(old_lexer.layout)) =>
          /\ Len(lexer.layout) = Len(old_lexer.layout) + 1
          /\ SubSeq(lexer.layout, 1, Len(old_lexer.layout)) = old_lexer.layout
          /\ Len(old_lexer.layout) > 0 =>
                lexer.layout[Len(lexer.layout)].column > LastTop.column

\* a frame has been pushed on a frame
C29_Witness ==
    /\ Called
    /\ Len(old_lexer.layout) > 0
    /\ Len(lexer.layout) = Len(old_lexer.layout) + 1
    /\ lexer.layout[Len(lexer.layout)].column > LastTop.column

(***************************************************************************)
(* Reading an annotated tree: the nodes below a node and the tags of its   *)
(* var nodes.                                                              *)
(***************************************************************************)
\* the keys under which a node holds one child, and those under which it
\* holds an array of children
ChildKeys(e) ==
    IF e.syntax = "entry" THEN { "key", "value" }
    ELSE { "left", "right", "func", "subj", "cond", "then", "else", "body" }

ChildArrayKeys ==
    { "args", "elems", "entries", "clauses", "pats", "seq" }

\* the children of a node; those of a do node include the clauses of its
\* function definitions
Kids(e) ==
    { e[k] : k \in DOMAIN e \cap ChildKeys(e) }
      \cup UNION { { e[k][i] : i \in DOMAIN e[k] } : k \in DOMAIN e \cap ChildArrayKeys }
      \cup (IF "defs" \in DOMAIN e
            THEN UNION { { e.defs[n].clauses[i] : i \in DOMAIN e.defs[n].clauses } :
                           n \in DOMAIN e.defs }
            ELSE {})

RECURSIVE SubNodes(_)
\* e and the nodes below it
SubNodes(e) ==
    { e } \cup UNION { SubNodes(k) : k \in Kids(e) }

\* the var nodes of name at and below e that carry one of the actions
Tagged(e, name, actions) ==
    { v \in SubNodes(e) :
        /\ v.syntax = "var"
        /\ v.name = [string |-> name]
        /\ "action" \in DOMAIN v
        /\ v.action \in actions }

\* the varset of a node, empty when it has none
VarsetOf(e) ==
    IF "varset" \in DOMAIN e THEN e.varset ELSE di_dict_empty

(***************************************************************************)
(* Arrays.  An array object has a reference counter and its elements; a    *)
(* reference is the index of the object in heap.  The deque below the      *)
(* array (aadeque) is a sequence; the elements are immediate values, which *)
(* have no reference counter.  Each operation returns the heap and the     *)
(* reference it leaves in *aptr (or returns).                              *)
(***************************************************************************)
MaxLen == 2

MaxObjects == 2

MaxHolders == 2

\* the values stored in the arrays
Elements ==
    { 0, 1 }

\* di_array_empty: a new object with no element and no reference
di_array_empty(h) ==
    [heap |-> Append(h, [refc |-> 0, elems |-> << >>]), ref |-> Len(h) + 1]

di_array_length(h, r) ==
    Len(h[r].elems)

di_incref(h, r) ==
    [h EXCEPT ![r].refc = @ + 1]

di_decref(h, r) ==
    [h EXCEPT ![r].refc = @ - 1]

\* a new object with the elements of r and no reference
di_aadeque_clone(h, r) ==
    [heap |-> Append(h, [refc |-> 0, elems |-> h[r].elems]), ref |-> Len(h) + 1]

\* WritableArray that never clones
WritableArray_InPlace(h, r) ==
    [heap |-> h, ref |-> r]

\* if (arr->header.refc > 0) arr = di_aadeque_clone(arr);
WritableArray(h, r) ==
    IF h[r].refc > 0 THEN di_aadeque_clone(h, r) ELSE [heap |-> h, ref |-> r]

\* the object w.ref of w.heap with its elements replaced
Stored(w, elems) ==
    [heap |-> [w.heap EXCEPT ![w.ref].elems = elems], ref |-> w.ref]

\* i counts from 0
di_array_set(h, r, i, v) ==
    Stored(WritableArray(h, r), [h[r].elems EXCEPT ![i + 1] = v])

di_array_push(h, r, v) ==
    Stored(WritableArray(h, r), Append(h[r].elems, v))

di_array_pop(h, r) ==
    Stored(WritableArray(h, r), SubSeq(h[r].elems, 1, Len(h[r].elems) - 1))

di_array_unshift(h, r, v) ==
    Stored(WritableArray(h, r), << v >> \o h[r].elems)

di_array_shift(h, r) ==
    Stored(WritableArray(h, r), Tail(h[r].elems))

(***************************************************************************)
(* The array runs: one reference is handed to the operations, as in        *)
(* di-test.c; other holders take a reference to the object it points to    *)
(* with di_incref and give it back with di_decref.                         *)
(***************************************************************************)
InitArrays ==
    /\ lexer = di_lexer_create(<< >>)
    /\ token = di_null
    /\ status = "arrays"
    /\ old_lexer = lexer
    /\ old_token = di_null
    /\ inserted = FALSE
    /\ pushes = 0
    /\ closers = 0
    /\ stream = << >>
    /\ input = di_null
    /\ tree = di_null
    /\ annotated = di_null
    /\ failure = di_null
    /\ printed = << >>
    /\ heap = di_array_empty(<< >>).heap
    /\ array = di_array_empty(<< >>).ref
    /\ holders = << >>
    /\ written = di_null

\* the run after the operation op left w
Written(op, w) ==
    /\ heap' = w.heap
    /\ array' = w.ref
    /\ written' = [op |-> op, ref |-> array, refc |-> heap[array].refc,
                   elems |-> heap[array].elems]
    /\ UNCHANGED <<lexer, token, status, old_lexer, old_token, inserted, pushes,
                   closers, stream, input, tree, annotated, failure, printed,
                   holders>>

\* another holder takes a reference to the array
hold ==
    /\ status = "arrays"
    /\ Len(heap) < MaxObjects
    /\ Len(holders) < MaxHolders
    /\ heap' = di_incref(heap, array)
    /\ holders' = Append(holders, [ref |-> array, elems |-> heap[array].elems])
    /\ written' = di_null
    /\ UNCHANGED <<lexer, token, status, old_lexer, old_token, inserted, pushes,
                   closers, stream, input, tree, annotated, failure, printed,
                   array>>

\* the holder that came last gives its reference back
release ==
    /\ status = "arrays"
    /\ holders # << >>
    /\ heap' = di_decref(heap, holders[Len(holders)].ref)
    /\ holders' = SubSeq(holders, 1, Len(holders) - 1)
    /\ written' = di_null
    /\ UNCHANGED <<lexer, token, status, old_lexer, old_token, inserted, pushes,
                   closers, stream, input, tree, annotated, failure, printed,
                   array>>

array_set ==
    /\ status = "arrays"
    /\ \E i \in 0..(di_array_length(heap, array) - 1), v \in Elements :
          Written("set", di_array_set(heap, array, i, v))

array_push ==
    /\ status = "arrays"
    /\ di_array_length(heap, array) < MaxLen
    /\ \E v \in Elements : Written("push", di_array_push(heap, array, v))

array_pop ==
    /\ status = "arrays"
    /\ di_array_length(heap, array) > 0
    /\ Written("pop", di_array_pop(heap, array))

array_unshift ==
    /\ status = "arrays"
    /\ di_array_length(heap, array) < MaxLen
    /\ \E v \in Elements : Written("unshift", di_array_unshift(heap, array, v))

array_shift ==
    /\ status = "arrays"
    /\ di_array_length(heap, array) > 0
    /\ Written("shift", di_array_shift(heap, array))

NextArrays ==
    \/ hold
    \/ release
    \/ array_set
    \/ array_push
    \/ array_pop
    \/ array_unshift
    \/ array_shift

\* the array operations on one reference, with other holders coming and going
SpecArrays ==
    InitArrays /\ [][NextArrays]_vars

(***************************************************************************)
(* C25.  di_array_set, di_array_push, di_array_pop, di_array_shift and     *)
(* di_array_unshift change the object they are called on exactly when its  *)
(* reference counter is zero; with a counter above zero they leave it as   *)
(* it is and work on a new object, so every holder of a reference still    *)
(* finds the length and the elements it saw.                               *)
(***************************************************************************)
C25_CopyOnWrite ==
    /\ \A k \in DOMAIN holders : heap[holders[k].ref].elems = holders[k].elems
    /\ written # di_null =>
          /\ (array = written.ref) <=> (written.refc = 0)
          /\ written.refc > 0 =>
                /\ heap[written.ref].elems = written.elems
                /\ heap[array].refc = 0

\* an operation on an array another holder has a reference to has left the
\* holder's object with other elements than the result
C25_Witness ==
    /\ written # di_null
    /\ written.refc > 0
    /\ holders # << >>
    /\ holders[Len(holders)].ref = written.ref
    /\ heap[array].elems # holders[Len(holders)].elems
    /\ Len(holders[Len(holders)].elems) > 0

\* ---------------------------------------------------------------------
\* The annotation of function definitions
\* ---------------------------------------------------------------------

\* the input is a source of the set sources and di_annotate has run on it
AnnotationRanOn(sources) ==
    /\ input.kind = "annotation"
    /\ input.text \in sources
    /\ status \in { "annotated", "stopped" }

\* C21: a block whose functions are used before their definition or call
\* each other, cyclically too, is annotated without any diagnostic
C21_FunctionsPreBound ==
    AnnotationRanOn(FunctionSources) => status = "annotated" /\ printed = << >>

\* the nodes of a tree that carry a position
Located(e) ==
    {n \in SubNodes(e) : {"line", "column"} \subseteq DOMAIN n}

\* the texts of the diagnostics the annotator documents for a tree: an
\* undefined variable, a pattern that names a function, an invalid pattern
\* or expression
DocumentedTexts(e) ==
    {"Undefined variable " \o v.name.string : v \in {n \in SubNodes(e) : n.syntax = "var"}}
    \cup {"Invalid pattern " \o n.syntax : n \in SubNodes(e)}
    \cup { "Pattern matching on functions not supported",
           "Regular expression can't be used in this context.",
           "Unknown expression" }

\* the documented diagnostics, each at the position of a node of the tree
Documented(e) ==
    {error_expr_format(n, text) : n \in Located(e), text \in DocumentedTexts(e)}

\* C30: di_annotate returns an annotated tree or stops with one of the
\* documented diagnostics; the assert(found) and the "Can't annotate ... as
\* the last access" of the last-access pass are never reached
C30_OnlyDocumented ==
    status = "stopped" => failure \in Documented(tree)

\* ---------------------------------------------------------------------
\* The last access of the names of a scope
\* ---------------------------------------------------------------------

\* the scopes of a tree that close: its clauses and its blocks
Scopes(e) ==
    {s \in SubNodes(e) : s.syntax \in { "clause", "do" }}

\* the patterns of a scope: the pats of a clause, the left sides of the
\* entries name = expr of a block
Patterns(s) ==
    IF s.syntax = "clause" THEN {s.pats[i] : i \in DOMAIN s.pats}
    ELSE {s.seq[i].left : i \in {j \in DOMAIN s.seq : s.seq[j].syntax = "="}}

\* the names bound in a scope: the variables its patterns bind and, for a
\* block, the functions it defines
BoundIn(s) ==
    {v.name.string :
       v \in {w \in UNION {SubNodes(p) : p \in Patterns(s)} :
                /\ w.syntax = "var"
                /\ "action" \in DOMAIN w
                /\ w.action \in { "bind", "discard" }}}
        \cup (IF s.syntax = "do" /\ "defs" \in DOMAIN s THEN DOMAIN s.defs ELSE {})

\* the var nodes of the scope s that end the life of its name n: the ones
\* tagged last or discard, outside the scopes within s that bind n again
LastOf(s, n) ==
    Tagged(s, n, { "last", "discard" })
        \ UNION {SubNodes(t) : t \in {u \in Scopes(s) \ {s} : n \in BoundIn(u)}}

\* v and w are in opposite branches of an if of s
Opposite(s, v, w) ==
    \E i \in {j \in SubNodes(s) : j.syntax = "if"} :
        \/ v \in SubNodes(i.then) /\ w \in SubNodes(i.else)
        \/ w \in SubNodes(i.then) /\ v \in SubNodes(i.else)

\* the name n of the scope s ends in branch b of the if i whenever it ends
\* in the other branch o and b reads it
EndsInBoth(s, n, i, b, o) ==
    LastOf(s, n) \cap SubNodes(i[o]) # {} /\ n \in DOMAIN VarsetOf(i[b])
        => LastOf(s, n) \cap SubNodes(i[b]) # {}

\* C22 as stated: for every scope that closes and every name bound in it,
\* exactly one var node bearing that name carries last or discard
C22_ExactlyOne ==
    status = "annotated" =>
        \A s \in Scopes(annotated) : \A n \in BoundIn(s) :
            Cardinality(LastOf(s, n)) = 1

\* C22 amended: for every scope that closes and every name bound in it, at
\* least one var node bearing that name carries last or discard, two such
\* nodes are always in opposite branches of an if, and an if that has such
\* a node in one branch has one in the other branch too when that branch
\* reads the name
C22_OnePerPath ==
    status = "annotated" =>
        \A s \in Scopes(annotated) : \A n \in BoundIn(s) :
            /\ LastOf(s, n) # {}
            /\ \A v \in LastOf(s, n) : \A w \in LastOf(s, n) \ {v} : Opposite(s, v, w)
            /\ \A i \in {j \in SubNodes(s) : j.syntax = "if"} :
                  /\ EndsInBoth(s, n, i, "then", "else")
                  /\ EndsInBoth(s, n, i, "else", "then")

\* a block was annotated in which x is read in both branches of an if and
\* both reads carry last
C22_Witness ==
    /\ status = "annotated"
    /\ annotated.syntax = "do"
    /\ "x" \in BoundIn(annotated)
    /\ Cardinality(LastOf(annotated, "x")) = 2

\* C23: a bound variable that is never accessed has its binding var
\* retagged from bind to discard and the annotation continues; the unused
\* variable diagnostic is printed unless the name begins with _
C23_UnusedDiscarded ==
    input.kind = "tree" /\ ~input.read /\ input.name # <<"_">> /\ status # "parsed"
        => /\ status = "annotated"
           /\ Tagged(annotated, Text(input.name), { "discard" }) = {annotated.seq[1].left}
           /\ (printed = << >>) <=> (Head(input.name) = "_")

\* C24: a var in pattern position whose name denotes a function of an
\* enclosing block always stops the annotation with 'Pattern matching on
\* functions not supported', whatever the order in which the definitions of
\* the block are annotated
C24_FunctionPattern ==
    AnnotationRanOn(FunctionPatternSources)
        => /\ status = "stopped"
           /\ failure \in {error_expr_format(n, "Pattern matching on functions not supported") :
                             n \in Located(tree)}

\* ---------------------------------------------------------------------
\* Conditional accesses and varsets
\* ---------------------------------------------------------------------

\* the names the node a reads from outside and the node b does not
OnlyIn(a, b) ==
    DOMAIN VarsetOf(a) \ DOMAIN VarsetOf(b)

\* C26: a variable accessed in only some branches of an if, or in only some
\* clauses of a case, gets no last on that conditional access
C26_ConditionalKeepsAccess ==
    status = "annotated" =>
        /\ \A i \in {j \in SubNodes(annotated) : j.syntax = "if"} :
              /\ \A n \in OnlyIn(i.then, i.else) : Tagged(i.then, n, { "last" }) = {}
              /\ \A n \in OnlyIn(i.else, i.then) : Tagged(i.else, n, { "last" }) = {}
        /\ \A c \in {j \in SubNodes(annotated) : j.syntax = "case"} :
              \A k \in DOMAIN c.clauses : \A o \in DOMAIN c.clauses :
                  \A n \in OnlyIn(c.clauses[k], c.clauses[o]) :
                      Tagged(c.clauses[k], n, { "last" }) = {}

\* the container nodes of a tree: the nodes with children that close no
\* scope
Containers(e) ==
    {c \in SubNodes(e) : Kids(c) # {} /\ c.syntax \notin { "clause", "do" }}

\* the children of c that hold the name n with the value v in their varset
Holding(c, n, v) ==
    {k \in Kids(c) : n \in DOMAIN VarsetOf(k) /\ VarsetOf(k)[n] = v}

\* C27: the varset of a container node is the union of the varsets of its
\* children, and a name that is bind in one child and access in another is
\* access in it, whatever the order of the children
C27_VarsetUnion ==
    status = "annotated" =>
        \A c \in Containers(annotated) :
            /\ DOMAIN VarsetOf(c) = UNION {DOMAIN VarsetOf(k) : k \in Kids(c)}
            /\ \A n \in DOMAIN VarsetOf(c) :
                  Holding(c, n, "bind") # {} /\ Holding(c, n, "access") # {}
                      => VarsetOf(c)[n] = "access"

\* the names in the varsets of the parts a scope is made of: the patterns
\* and the body of a clause, the entries of the seq of a block
PartNames(s) ==
    IF s.syntax = "clause"
    THEN UNION {DOMAIN VarsetOf(s.pats[i]) : i \in DOMAIN s.pats}
           \cup DOMAIN VarsetOf(s.body)
    ELSE UNION {DOMAIN VarsetOf(s.seq[i]) : i \in DOMAIN s.seq}

\* C28: the varset of a clause holds the names of the varsets of its
\* patterns and body minus the names the clause binds, the varset of a
\* block the names of the varsets of its seq entries minus the variables
\* and functions of the block
C28_ScopeVarset ==
    status = "annotated" =>
        \A s \in Scopes(annotated) :
            DOMAIN VarsetOf(s) = PartNames(s) \ BoundIn(s)

\* a tree was annotated with a clause and a block that each bind a name
\* their parts hold and expose a name from outside
C28_Witness ==
    /\ status = "annotated"
    /\ \A syntax \in { "clause", "do" } :
          \E s \in Scopes(annotated) :
              /\ s.syntax = syntax
              /\ PartNames(s) \cap BoundIn(s) # {}
              /\ DOMAIN VarsetOf(s) # {}

====
